---- MODULE Spec2Model ----
(***************************************************************************)
(* A model of the TikTok profile scraper: TikTokScraper.scrape_profile     *)
(* (src/src/scraper.py) with the pagination loop, the item loop, the       *)
(* deduplication list and the browser life cycle, CSVExporter as the sink  *)
(* (src/src/csv_exporter.py) and RetryHandler.execute_with_retry           *)
(* (src/src/utils.py).                                                     *)
(*                                                                         *)
(* The browser, the page and the feed are the environment: every call that *)
(* can raise or answer in several ways is a choice (\E) over its outcomes. *)
(***************************************************************************)
EXTENDS Integers, Sequences, FiniteSets, TLC

(***************************************************************************)
(* Bounds of the model.                                                    *)
(***************************************************************************)
\* The longest profile feed.
MaxFeed == 3
\* Item URLs are 1..MaxUrl; 0 stands for an item whose URL cannot be obtained.
MaxUrl == 2
\* config.max_videos is drawn from 1..MaxVideosCap.
MaxVideosCap == 3
\* RetryHandler.max_retries is drawn from 0..MaxAttempts.
MaxAttempts == 5
\* RetryHandler.base_delay is drawn from 1..MaxBaseDelay.
MaxBaseDelay == 3
\* The count texts are the examples and every text of up to MaxTextLen characters.
MaxTextLen == 3
\* An element of the grid holds up to MaxNodes nodes.
MaxNodes == 1
\* The longest numeric segment of a URL.
MaxIdLen == 3
\* The most records handed to the sink for one video.
MaxRecords == 2
\* The latest time the clock shows.
MaxClock == 2
\* The most calls of save_to_csv in a run.
MaxSaves == 3

(***************************************************************************)
(* Program constants.                                                      *)
(***************************************************************************)
\* scroll_and_load_videos: max_no_new_videos = 3
max_no_new_videos == 3
\* Config.max_retries: int(os.getenv("MAX_RETRIES", "5"))
max_retries == 5

VARIABLES
  pc,                   \* position of scrape_profile
  ret,                  \* what scrape_profile returns: "none" until a return statement runs
  why,                  \* the return statement that ran
  browser,              \* self.browser: "none", "open", "closed", "close_failed"
  context,              \* self.context: "none", "open", "closed", "close_failed"
  loc,                  \* the view the page shows: "none", "profile", "detail"
  feed_len,             \* how many items the profile has
  feed,                 \* the items the crawl has read so far, in grid order
  max_videos,           \* config.max_videos
  visible,              \* how many items of the feed the grid has loaded
  videos_loaded,        \* scroll_and_load_videos: videos_loaded
  no_new_videos_count,  \* scroll_and_load_videos: no_new_videos_count
  final_count,          \* scroll_and_load_videos: final_count of the last scan
  recent,               \* history: whether each of the last 3 scans showed growth
  total_videos,         \* scrape_profile: total_videos
  i,                    \* scrape_profile: the loop index
  video_data,           \* scrape_profile: video_data, <<>> for None
  additional_data,      \* scrape_profile: additional_data
  extracted,            \* the detail view: what its three extractors returned
  scraped_videos,       \* self.scraped_videos
  scraped_count,        \* scrape_profile: scraped_count
  data,                 \* self.csv_exporter.data
  csv_saved,            \* what save_to_csv did: "none", "saved", "failed"
  sinkCalls,            \* history: the URLs handed to add_video_data, in order
  detailNavs,           \* history: the URLs the detail view was navigated to
  profileGotos,         \* history: how often page.goto(profile_url) was called
  outcome,              \* history: what became of each index the loop reached
  faulted,              \* history: a call of the session has raised or come back empty
  r_pc,                 \* position of execute_with_retry
  r_max_retries,        \* RetryHandler.max_retries
  r_base_delay,         \* RetryHandler.base_delay
  attempt,              \* execute_with_retry: attempt
  last_exception,       \* execute_with_retry: last_exception, 0 for None
  delay,                \* execute_with_retry: delay
  r_raised,             \* the error execute_with_retry raised, 0 for none
  calls,                \* history: how often func was invoked
  slept,                \* history: the delays slept, in order
  r_result,             \* what execute_with_retry returned, 0 for nothing
  text,                 \* format_number: text
  number,               \* what format_number returned or raised
  f_pc,                 \* position of the call of format_number
  raw_data,             \* add_video_data: video_data
  sink_data,            \* csv_exporter.data, with the processed records in full
  added,                \* what add_video_data returned
  a_pc,                 \* position of the call of add_video_data
  element,              \* extract_views_from_grid: what the item's own element shows
  others,               \* the elements before and after it in its parent
  views,                \* what extract_views_from_grid returned
  v_pc,                 \* position of extract_views_from_grid
  extractor,            \* the field extractor that is called
  candidates,           \* what the page gives for each selector of its list
  queried,              \* history: the selectors the extractor queried, in order
  value,                \* what the extractor returned, <<>> for "" and for None
  c_pc,                 \* position of the call of the extractor
  now,                  \* the clock that datetime.now() reads
  username,             \* scrape_profile: username
  tiktok_username,      \* config.tiktok_username
  csvfile,              \* the file at csv_exporter.filepath: whether it exists, its lines
  save_result,          \* what save_to_csv returned, "none" before a call
  save_failed,          \* history: a call of save_to_csv has raised
  saves                 \* history: the calls of save_to_csv, in order

vars == <<pc, ret, why, browser, context, loc, feed_len, feed, max_videos, visible,
          videos_loaded, no_new_videos_count, final_count, recent, total_videos, i,
          video_data, additional_data, extracted, scraped_videos, scraped_count, data, csv_saved,
          sinkCalls, detailNavs, profileGotos, outcome, faulted, r_pc, r_max_retries,
          r_base_delay, attempt, last_exception, delay, r_raised, calls, slept,
          r_result, text, number, f_pc, raw_data, sink_data, added, a_pc, element,
          others, views, v_pc, extractor, candidates, queried, value, c_pc, now,
          username, tiktok_username, csvfile, save_result, save_failed, saves>>

crawlVars == <<pc, ret, why, browser, context, loc, feed_len, feed, max_videos, visible,
               videos_loaded, no_new_videos_count, final_count, recent, total_videos, i,
               video_data, additional_data, extracted, scraped_videos, scraped_count, data,
               csv_saved, sinkCalls, detailNavs, profileGotos, outcome, faulted>>
retryVars == <<r_pc, r_max_retries, r_base_delay, attempt, last_exception, delay,
               r_raised, calls, slept, r_result>>
formatVars == <<text, number, f_pc>>
sinkVars == <<raw_data, sink_data, added, a_pc>>
viewsVars == <<element, others, views, v_pc>>
chainVars == <<extractor, candidates, queried, value, c_pc>>
recordVars == <<now, username, tiktok_username>>
fileVars == <<csvfile, save_result, save_failed, saves>>
callVars == <<formatVars, sinkVars, viewsVars, chainVars, recordVars, fileVars>>
browserVars == <<browser, context>>
scrollVars == <<visible, videos_loaded, no_new_videos_count, final_count, recent,
                total_videos>>
itemVars == <<feed, i, video_data, additional_data, extracted, scraped_videos, scraped_count, data,
              sinkCalls, detailNavs, outcome>>

(***************************************************************************)
(* The feed: the profile has feed_len items, the grid has loaded the first *)
(* visible of them.  An element handle is the item's place in the grid.    *)
(* The loop reads each place once, and the item it finds there is drawn    *)
(* when it is read.  Scrolling only adds items, and the grid keeps the     *)
(* items it has loaded for the rest of the session.                        *)
(***************************************************************************)
Urls == 0..MaxUrl
Items == [url : Urls]

\* The number of entries of sequence s that equal x.
Count(s, x) == Cardinality({k \in DOMAIN s : s[k] = x})

(***************************************************************************)
(* start_browser: launch, new_context and new_page can each raise; what    *)
(* was acquired before the error stays in self.browser and self.context.   *)
(***************************************************************************)
StartOutcomes == {"ok", "launch_error", "context_error", "page_error"}

BrowserAfterStart(o) == IF o = "launch_error" THEN "none" ELSE "open"

ContextAfterStart(o) == IF o \in {"launch_error", "context_error"} THEN "none" ELSE "open"

\* scrape_profile, "await self.start_browser()": an error is re-raised by
\* start_browser and caught by scrape_profile's "except Exception: return False".
StartBrowser ==
  /\ pc = "start"
  /\ \E o \in StartOutcomes :
       /\ browser' = BrowserAfterStart(o)
       /\ context' = ContextAfterStart(o)
       /\ faulted' = (faulted \/ o # "ok")
       /\ IF o = "ok"
            THEN pc' = "navigate" /\ UNCHANGED <<ret, why>>
            ELSE pc' = "closing" /\ ret' = "false" /\ why' = "start_error"
  /\ UNCHANGED <<loc, feed_len, max_videos, profileGotos, csv_saved>>
  /\ UNCHANGED retryVars
  /\ UNCHANGED callVars
  /\ UNCHANGED scrollVars
  /\ UNCHANGED itemVars

(***************************************************************************)
(* close_browser: one try block around both closes, so an error of         *)
(* context.close() skips browser.close().  A handle is "open" until its    *)
(* close is called, and then "closed", or "close_failed" when the close    *)
(* raised.                                                                 *)
(***************************************************************************)
ContextAfterClose(c, ctxErr) ==
  IF c # "open" THEN c
  ELSE IF ctxErr THEN "close_failed"
  ELSE "closed"

BrowserAfterClose(b, c, ctxErr, brErr) ==
  IF b # "open" THEN b
  ELSE IF c = "open" /\ ctxErr THEN "open"
  ELSE IF brErr THEN "close_failed"
  ELSE "closed"

\* scrape_profile, "finally: await self.close_browser()".
CloseBrowser ==
  /\ pc = "closing"
  /\ \E ctxErr \in BOOLEAN, brErr \in BOOLEAN :
       /\ context' = ContextAfterClose(context, ctxErr)
       /\ browser' = BrowserAfterClose(browser, context, ctxErr, brErr)
  /\ faulted' = (faulted \/ context' = "close_failed" \/ browser' = "close_failed")
  /\ pc' = "done"
  /\ UNCHANGED <<ret, why, loc, feed_len, max_videos, profileGotos, csv_saved>>
  /\ UNCHANGED retryVars
  /\ UNCHANGED callVars
  /\ UNCHANGED scrollVars
  /\ UNCHANGED itemVars

(***************************************************************************)
(* navigate_to_profile: one page.goto; an error and "User not found" both  *)
(* return False, and scrape_profile then returns False.                    *)
(***************************************************************************)
NavOutcomes == {"ok", "not_found", "error"}

NavigateToProfile ==
  /\ pc = "navigate"
  /\ \E o \in NavOutcomes :
       /\ profileGotos' = profileGotos + 1
       /\ loc' = IF o = "error" THEN loc ELSE "profile"
       /\ faulted' = (faulted \/ o = "error")
       /\ IF o = "ok"
            THEN pc' = "scroll" /\ UNCHANGED <<ret, why>>
            ELSE /\ pc' = "closing"
                 /\ ret' = "false"
                 /\ why' = IF o = "error" THEN "nav_error" ELSE "not_found"
  /\ UNCHANGED <<feed_len, max_videos, csv_saved>>
  /\ UNCHANGED browserVars
  /\ UNCHANGED retryVars
  /\ UNCHANGED callVars
  /\ UNCHANGED scrollVars
  /\ UNCHANGED itemVars

(***************************************************************************)
(* get_visible_video_elements: the handles of the loaded grid items, or [] *)
(* when the query raises (the except returns []) or no selector matches,   *)
(* as on a page that is not the profile grid.                              *)
(***************************************************************************)
VisibleHandles(v, l) ==
  IF l = "profile" THEN {[k \in 1..v |-> k], <<>>} ELSE {<<>>}

(***************************************************************************)
(* scroll_and_load_videos.                                                 *)
(***************************************************************************)
\* while videos_loaded < config.max_videos and no_new_videos_count < max_no_new_videos
ScrollLoopCond(loaded, stalls, maxv) == loaded < maxv /\ stalls < max_no_new_videos

\* if final_count > initial_count: videos_loaded = final_count
LoadedAfter(loaded, initial, final) ==
  IF final > initial THEN final ELSE loaded

\* A stall counter that growth does not reset.
StallsAfter_noReset(stalls, initial, final) ==
  IF final > initial THEN stalls ELSE stalls + 1

\* if final_count > initial_count: no_new_videos_count = 0, else: += 1
StallsAfter(stalls, initial, final) ==
  IF final > initial THEN 0 ELSE stalls + 1

\* The last max_no_new_videos entries of the scan history s.
LastScans(s) ==
  IF Len(s) <= max_no_new_videos THEN s
  ELSE SubSeq(s, Len(s) - max_no_new_videos + 1, Len(s))

\* One iteration of the while loop: measure, scroll, wait, measure again, count.
\* The scroll may load more items of the feed.
ScrollScan ==
  /\ pc = "scroll"
  /\ ScrollLoopCond(videos_loaded, no_new_videos_count, max_videos)
  /\ \E h1 \in VisibleHandles(visible, loc), v \in visible..feed_len :
       \E h2 \in VisibleHandles(v, loc) :
         /\ visible' = v
         /\ videos_loaded' = LoadedAfter(videos_loaded, Len(h1), Len(h2))
         /\ no_new_videos_count' = StallsAfter(no_new_videos_count, Len(h1), Len(h2))
         /\ final_count' = Len(h2)
         /\ recent' = LastScans(Append(recent, Len(h2) > Len(h1)))
         /\ faulted' = (faulted \/ Len(h1) # visible \/ Len(h2) # v)
  /\ UNCHANGED <<pc, ret, why, loc, feed_len, max_videos, total_videos, profileGotos,
                 csv_saved>>
  /\ UNCHANGED browserVars
  /\ UNCHANGED retryVars
  /\ UNCHANGED callVars
  /\ UNCHANGED itemVars

\* An error inside the loop (page.evaluate, wait_for_timeout): "except: return 0",
\* and scrape_profile returns False for total_videos == 0.
ScrollError ==
  /\ pc = "scroll"
  /\ ScrollLoopCond(videos_loaded, no_new_videos_count, max_videos)
  /\ total_videos' = 0
  /\ videos_loaded' = 0
  /\ no_new_videos_count' = 0
  /\ final_count' = 0
  /\ recent' = <<>>
  /\ faulted' = TRUE
  /\ pc' = "closing"
  /\ ret' = "false"
  /\ why' = "no_videos"
  /\ UNCHANGED <<loc, feed_len, max_videos, visible, profileGotos, csv_saved>>
  /\ UNCHANGED browserVars
  /\ UNCHANGED retryVars
  /\ UNCHANGED callVars
  /\ UNCHANGED itemVars

\* The loop condition is false: "return videos_loaded"; scrape_profile returns
\* False for total_videos == 0 and starts the item loop otherwise.  The locals of
\* scroll_and_load_videos end with the call.
ScrollReturn ==
  /\ pc = "scroll"
  /\ ~ScrollLoopCond(videos_loaded, no_new_videos_count, max_videos)
  /\ total_videos' = videos_loaded
  /\ videos_loaded' = 0
  /\ no_new_videos_count' = 0
  /\ final_count' = 0
  /\ recent' = <<>>
  /\ IF videos_loaded = 0
       THEN pc' = "closing" /\ ret' = "false" /\ why' = "no_videos"
       ELSE pc' = "enumerate" /\ UNCHANGED <<ret, why>>
  /\ UNCHANGED <<loc, feed_len, max_videos, visible, profileGotos, csv_saved, faulted>>
  /\ UNCHANGED browserVars
  /\ UNCHANGED retryVars
  /\ UNCHANGED callVars
  /\ UNCHANGED itemVars

(***************************************************************************)
(* The item loop of scrape_profile: for i in range(config.max_videos).     *)
(***************************************************************************)
\* What an extractor of a count found: "count" is a text with a digit that
\* format_number converts, "default" the "0" of a missing element or of a failed
\* extraction, "malformed" a text with a digit on which format_number raises.
CountKinds == {"count", "default", "malformed"}

\* extract_video_data: None (here <<>>) when extract_video_url finds no URL or an
\* error is caught, the list-view fields otherwise.  The thumbnail is a str,
\* found or "", that nothing reads before the file is written.
ExtractVideoData(item) ==
  IF item.url = 0 THEN {<<>>}
  ELSE {<<>>} \cup {<<[video_url |-> item.url, views_count |-> c]>> : c \in CountKinds}

\* A membership test that never finds the URL.
AlreadyScraped_never(url, scraped) == FALSE

\* A membership test that looks at the last committed URL only.
AlreadyScraped_onlyLast(url, scraped) == scraped # <<>> /\ scraped[Len(scraped)] = url

\* if video_data['video_url'] not in self.scraped_videos
AlreadyScraped(url, scraped) == \E k \in DOMAIN scraped : scraped[k] = url

\* A loop that goes on as long as the grid has handles.
ItemLoopCond_unbounded(idx, maxv) == TRUE

\* for i in range(config.max_videos)
ItemLoopCond(idx, maxv) == idx < maxv

\* Lines 498-511: the loop test, the re-query of the handles, the index test (break),
\* extract_video_data, and the tests that decide whether the item goes on to the
\* detail view.
ItemEnumerate ==
  /\ pc = "enumerate"
  /\ IF ~ItemLoopCond(i, max_videos)
       THEN pc' = "save" /\ UNCHANGED <<feed, video_data, outcome, faulted>>
       ELSE \E handles \in VisibleHandles(visible, loc) :
              IF i >= Len(handles)
                THEN /\ pc' = "save"
                     /\ faulted' = (faulted \/ Len(handles) # visible)
                     /\ UNCHANGED <<feed, video_data, outcome>>
                ELSE \E item \in Items : \E vd \in ExtractVideoData(item) :
                       /\ feed' = (handles[i + 1] :> item) @@ feed
                       /\ faulted' = (faulted \/ (vd = <<>> /\ item.url # 0))
                       /\ video_data' = vd
                       /\ IF vd = <<>>
                            THEN pc' = "sleep" /\ outcome' = Append(outcome, "no_url")
                            ELSE IF AlreadyScraped(vd[1].video_url, scraped_videos)
                              THEN pc' = "sleep" /\ outcome' = Append(outcome, "duplicate")
                              ELSE pc' = "detail" /\ UNCHANGED outcome
  /\ UNCHANGED <<ret, why, loc, feed_len, max_videos, profileGotos, csv_saved>>
  /\ UNCHANGED <<i, additional_data, extracted, scraped_videos, scraped_count, data, sinkCalls,
                 detailNavs>>
  /\ UNCHANGED browserVars
  /\ UNCHANGED retryVars
  /\ UNCHANGED callVars
  /\ UNCHANGED scrollVars

\* extract_data_from_individual_video: goto, the three extractions, go_back, all in
\* one try block whose except returns the defaults.
DetailOutcomes == {"ok", "goto_error", "back_error"}

\* The view the page shows afterwards.  A goto that raised (a timeout waiting for
\* the network to go idle, a refused connection) may or may not have left the
\* profile; a go_back that raised has not gone back.
LocAfterDetail(o) ==
  CASE o = "ok" -> {"profile"}
    [] o = "goto_error" -> {"profile", "detail"}
    [] o = "back_error" -> {"detail"}

\* What extract_data_from_individual_video returns: the dictionary of the except
\* block ("defaults"), or what the three extractors found: texts ("values"),
\* nothing (their defaults, the same dictionary), or a count on which
\* format_number raises ("malformed").
DetailResult(o) ==
  IF o = "ok" THEN {"values", "defaults", "malformed"} ELSE {"defaults"}

\* What description, likes and comments hold when the try block is left: nothing
\* when goto raised, and what the three extractors returned when go_back was
\* reached, whether it raised or not.
Extracted(o) ==
  IF o = "goto_error" THEN {"none"} ELSE {"values", "defaults", "malformed"}

ItemDetail ==
  /\ pc = "detail"
  /\ \E o \in DetailOutcomes :
       /\ loc' \in LocAfterDetail(o)
       /\ extracted' \in Extracted(o)
       /\ additional_data' \in DetailResult(o)
       /\ o = "ok" => additional_data' = extracted'
       /\ faulted' = (faulted \/ o # "ok")
  /\ detailNavs' = Append(detailNavs, video_data[1].video_url)
  /\ pc' = "commit"
  /\ UNCHANGED <<ret, why, feed_len, max_videos, profileGotos, csv_saved>>
  /\ UNCHANGED <<feed, i, video_data, scraped_videos, scraped_count, data, sinkCalls,
                 outcome>>
  /\ UNCHANGED browserVars
  /\ UNCHANGED retryVars
  /\ UNCHANGED callVars
  /\ UNCHANGED scrollVars

\* add_video_data: appends the processed record, or returns False when
\* _process_video_data raises (its except logs and returns False).
DataAfterAdd(d, rec, accepted) == IF accepted THEN Append(d, rec) ELSE d

\* A sink that takes a record only when every extraction found its field.
SinkAccepts_foundOnly(list, detail) == list = "count" /\ detail = "values"

\* _process_video_data raises when format_number raises on one of the counts.
SinkAccepts(list, detail) == list # "malformed" /\ detail # "malformed"

\* Lines 516-522: merge, add_video_data (its result is not read),
\* scraped_videos.append, scraped_count += 1.
ItemCommit ==
  /\ pc = "commit"
  /\ LET accepted == SinkAccepts(video_data[1].views_count, additional_data)
     IN  /\ data' = DataAfterAdd(data,
                                 [video_url |-> video_data[1].video_url,
                                  detail |-> additional_data],
                                 accepted)
         /\ faulted' = (faulted \/ ~accepted)
  /\ sinkCalls' = Append(sinkCalls, video_data[1].video_url)
  /\ scraped_videos' = Append(scraped_videos, video_data[1].video_url)
  /\ scraped_count' = scraped_count + 1
  /\ outcome' = Append(outcome, "committed")
  /\ pc' = "sleep"
  /\ UNCHANGED <<ret, why, loc, feed_len, max_videos, profileGotos, csv_saved>>
  /\ UNCHANGED <<feed, i, video_data, additional_data, extracted, detailNavs>>
  /\ UNCHANGED browserVars
  /\ UNCHANGED retryVars
  /\ UNCHANGED callVars
  /\ UNCHANGED scrollVars

\* await asyncio.sleep(config.extraction_delay), then the next index.
ItemSleep ==
  /\ pc = "sleep"
  /\ i' = i + 1
  /\ video_data' = <<>>
  /\ additional_data' = "none"
  /\ extracted' = "none"
  /\ pc' = "enumerate"
  /\ UNCHANGED <<ret, why, loc, feed_len, max_videos, profileGotos, csv_saved, faulted>>
  /\ UNCHANGED <<feed, scraped_videos, scraped_count, data, sinkCalls, detailNavs,
                 outcome>>
  /\ UNCHANGED browserVars
  /\ UNCHANGED retryVars
  /\ UNCHANGED callVars
  /\ UNCHANGED scrollVars

\* "except Exception as e: ... continue": an error that escapes the body of the
\* loop.  Every call of the body catches its own errors, so this is an error of
\* the body itself, at the call of the detail view and before its navigation.
ItemError ==
  /\ pc = "detail"
  /\ i' = i + 1
  /\ video_data' = <<>>
  /\ additional_data' = "none"
  /\ extracted' = "none"
  /\ outcome' = Append(outcome, "error")
  /\ faulted' = TRUE
  /\ pc' = "enumerate"
  /\ UNCHANGED <<ret, why, loc, feed_len, max_videos, profileGotos, csv_saved>>
  /\ UNCHANGED <<feed, scraped_videos, scraped_count, data, sinkCalls, detailNavs>>
  /\ UNCHANGED browserVars
  /\ UNCHANGED retryVars
  /\ UNCHANGED callVars
  /\ UNCHANGED scrollVars

(***************************************************************************)
(* Lines 533-547: save and report.                                         *)
(***************************************************************************)
\* A report that does not look at the data.
ReportAfterLoop_always(d) == "true"

\* The value scrape_profile returns after the loop: True iff csv_exporter.data is
\* not empty; the result of save_to_csv is not read.
ReportAfterLoop(d) == IF Len(d) > 0 THEN "true" ELSE "false"

SaveAndReport ==
  /\ pc = "save"
  /\ IF Len(data) > 0
       THEN \E written \in BOOLEAN :
              /\ csv_saved' = IF written THEN "saved" ELSE "failed"
              /\ faulted' = (faulted \/ ~written)
       ELSE UNCHANGED <<csv_saved, faulted>>
  /\ ret' = ReportAfterLoop(data)
  /\ why' = IF Len(data) > 0 THEN "scraped" ELSE "no_data"
  /\ pc' = "closing"
  /\ UNCHANGED <<loc, feed_len, max_videos, profileGotos>>
  /\ UNCHANGED browserVars
  /\ UNCHANGED retryVars
  /\ UNCHANGED callVars
  /\ UNCHANGED scrollVars
  /\ UNCHANGED itemVars

\* get_stats: 'total_videos' is 0 for no data and len(self.data) otherwise.
GetStatsTotalVideos(d) == IF d = <<>> THEN 0 ELSE Len(d)

(***************************************************************************)
(* An interrupt (KeyboardInterrupt, a cancellation) is no Exception: it    *)
(* passes "except Exception", the finally block closes the browser, and it *)
(* propagates to the caller.  The locals of an interrupted                 *)
(* scroll_and_load_videos end with it.                                     *)
(***************************************************************************)
Interrupt ==
  /\ pc \in {"navigate", "scroll", "enumerate", "detail", "sleep"}
  /\ pc' = "closing"
  /\ ret' = "raised"
  /\ why' = "interrupt"
  /\ faulted' = TRUE
  /\ videos_loaded' = 0
  /\ no_new_videos_count' = 0
  /\ final_count' = 0
  /\ recent' = <<>>
  /\ UNCHANGED <<loc, feed_len, max_videos, visible, total_videos, profileGotos, csv_saved>>
  /\ UNCHANGED browserVars
  /\ UNCHANGED retryVars
  /\ UNCHANGED callVars
  /\ UNCHANGED itemVars

(***************************************************************************)
(* RetryHandler.execute_with_retry.  The error of the k-th invocation of   *)
(* func is named k; TypeErr is what "raise None" raises.                   *)
(***************************************************************************)
TypeErr == -1

\* A linear backoff.
RetryDelay_linear(base, att) == base * (att + 1)

\* delay = self.base_delay * (2 ** attempt)
RetryDelay(base, att) == base * (2 ^ att)

\* An except block that keeps the first error.
LastExceptionAfter_first(last, e) == IF last = 0 THEN e ELSE last

\* except Exception as e: last_exception = e
LastExceptionAfter(last, e) == e

\* A handler that retries at once.
SleepsAfterFailure_never(att, maxr) == FALSE

\* if attempt < self.max_retries - 1 (sleep and retry), else (log, no sleep)
SleepsAfterFailure(att, maxr) == att < maxr - 1

\* One iteration of "for attempt in range(self.max_retries)" up to the sleep:
\* func is invoked and returns, or raises and the except block runs.
RetryCall ==
  /\ r_pc = "call"
  /\ attempt < r_max_retries
  /\ calls' = calls + 1
  /\ \E ok \in BOOLEAN :
       IF ok
         THEN /\ r_pc' = "returned"
              /\ r_result' = calls + 1
              /\ UNCHANGED <<attempt, last_exception, delay>>
         ELSE /\ last_exception' = LastExceptionAfter(last_exception, calls + 1)
              /\ UNCHANGED r_result
              /\ IF SleepsAfterFailure(attempt, r_max_retries)
                   THEN /\ delay' = RetryDelay(r_base_delay, attempt)
                        /\ r_pc' = "sleep"
                        /\ UNCHANGED attempt
                   ELSE /\ attempt' = attempt + 1
                        /\ UNCHANGED <<r_pc, delay>>
  /\ UNCHANGED <<r_max_retries, r_base_delay, r_raised, slept>>
  /\ UNCHANGED crawlVars
  /\ UNCHANGED callVars

\* await asyncio.sleep(delay), then the next attempt.
RetrySleep ==
  /\ r_pc = "sleep"
  /\ slept' = Append(slept, delay)
  /\ attempt' = attempt + 1
  /\ r_pc' = "call"
  /\ UNCHANGED <<r_max_retries, r_base_delay, last_exception, delay, r_raised, calls,
                 r_result>>
  /\ UNCHANGED crawlVars
  /\ UNCHANGED callVars

\* The loop is over: raise last_exception.
RetryRaise ==
  /\ r_pc = "call"
  /\ attempt >= r_max_retries
  /\ r_raised' = IF last_exception = 0 THEN TypeErr ELSE last_exception
  /\ r_pc' = "raised"
  /\ UNCHANGED <<r_max_retries, r_base_delay, attempt, last_exception, delay, calls, slept,
                 r_result>>
  /\ UNCHANGED crawlVars
  /\ UNCHANGED callVars

(***************************************************************************)
(* Texts.  A Python str is the sequence of its characters, each a string   *)
(* of length 1.                                                            *)
(***************************************************************************)
Digits == <<"0", "1", "2", "3", "4", "5", "6", "7", "8", "9">>

LowerCase == <<"a", "b", "c", "d", "e", "f", "g", "h", "i", "j", "k", "l", "m",
               "n", "o", "p", "q", "r", "s", "t", "u", "v", "w", "x", "y", "z">>

UpperCase == <<"A", "B", "C", "D", "E", "F", "G", "H", "I", "J", "K", "L", "M",
               "N", "O", "P", "Q", "R", "S", "T", "U", "V", "W", "X", "Y", "Z">>

\* char.isdigit()
IsDigit(c) == \E k \in DOMAIN Digits : Digits[k] = c

\* int(c) of a digit c
DigitValue(c) == (CHOOSE k \in DOMAIN Digits : Digits[k] = c) - 1

\* any(char.isdigit() for char in text)
HasDigit(t) == \E k \in DOMAIN t : IsDigit(t[k])

\* text.isdigit()
IsDigitStr(t) == t # <<>> /\ \A k \in DOMAIN t : IsDigit(t[k])

\* text.upper()
Upper(t) ==
  [k \in DOMAIN t |->
     IF \E j \in DOMAIN LowerCase : LowerCase[j] = t[k]
       THEN UpperCase[CHOOSE j \in DOMAIN LowerCase : LowerCase[j] = t[k]]
       ELSE t[k]]

\* text.replace(c, "") for a character c
Remove(t, c) == SelectSeq(t, LAMBDA x : x # c)

\* c in text, for a character c
Contains(t, c) == \E k \in DOMAIN t : t[k] = c

\* text.find(c) + 1 for a character c: the first place of c in text, 0 for none
Find(t, c) ==
  IF Contains(t, c) THEN CHOOSE k \in DOMAIN t : t[k] = c /\ \A j \in 1..(k - 1) : t[j] # c
  ELSE 0

(***************************************************************************)
(* Natural numbers of any size (an int of Python has no width), as the     *)
(* sequence of their digits in base 2^15, lowest first and with no leading *)
(* zeros.                                                                  *)
(***************************************************************************)
LimbBits == 15
LimbBase == 2 ^ LimbBits

RECURSIVE NatOf(_)
\* The digits of n.
NatOf(n) == IF n = 0 THEN <<>> ELSE <<n % LimbBase>> \o NatOf(n \div LimbBase)

\* b without its leading zeros.
Trim(b) ==
  LET used == {k \in DOMAIN b : b[k] # 0}
  IN  IF used = {} THEN <<>>
      ELSE SubSeq(b, 1, CHOOSE k \in used : \A j \in used : j <= k)

\* The digit of b at place j (from 1), 0 beyond the last.
Limb(b, j) == IF j \in DOMAIN b THEN b[j] ELSE 0

RECURSIVE MulAdd(_, _, _)
\* b * k + c, for k and c up to 2^15.
MulAdd(b, k, c) ==
  IF b = <<>> THEN NatOf(c)
  ELSE LET t == Head(b) * k + c
       IN  <<t % LimbBase>> \o MulAdd(Tail(b), k, t \div LimbBase)

RECURSIVE DivMod(_, _)
\* The quotient (not trimmed) and the remainder of b by d, for d up to 2^15.
DivMod(b, d) ==
  IF b = <<>> THEN [q |-> <<>>, r |-> 0]
  ELSE LET hi == DivMod(Tail(b), d)
           cur == hi.r * LimbBase + Head(b)
       IN  [q |-> <<cur \div d>> \o hi.q, r |-> cur % d]

RECURSIVE MulPow10(_, _)
\* b * 10^e
MulPow10(b, e) ==
  IF e <= 3 THEN MulAdd(b, 10 ^ e, 0)
  ELSE MulPow10(MulPow10(b, e \div 2), e - (e \div 2))

RECURSIVE DivPow10(_, _)
\* The quotient of b by 10^e, and whether the division left a remainder.
DivPow10(b, e) ==
  IF e <= 3
    THEN LET one == DivMod(b, 10 ^ e)
         IN  [q |-> Trim(one.q), inexact |-> one.r # 0]
    ELSE LET lo == DivPow10(b, e \div 2)
             hi == DivPow10(lo.q, e - (e \div 2))
         IN  [q |-> hi.q, inexact |-> lo.inexact \/ hi.inexact]

\* The number of binary digits of b.
BitLen(b) ==
  IF b = <<>> THEN 0
  ELSE LimbBits * (Len(b) - 1)
         + (CHOOSE n \in 1..LimbBits : 2 ^ (n - 1) <= b[Len(b)] /\ b[Len(b)] < 2 ^ n)

\* The binary digit of b at place n (from 0).
BitAt(b, n) == (Limb(b, (n \div LimbBits) + 1) \div (2 ^ (n % LimbBits))) % 2

\* Whether one of the lowest n binary digits of b is 1.
LowBitsSet(b, n) ==
  \/ \E j \in 1..(n \div LimbBits) : Limb(b, j) # 0
  \/ Limb(b, (n \div LimbBits) + 1) % (2 ^ (n % LimbBits)) # 0

\* b * 2^s
ShiftLeft(b, s) ==
  IF b = <<>> THEN b
  ELSE [j \in 1..(s \div LimbBits) |-> 0] \o Trim(MulAdd(b, 2 ^ (s % LimbBits), 0))

\* The integer part of b / 2^s
ShiftRight(b, s) ==
  LET a == s \div LimbBits
      r == s % LimbBits
  IN  IF a >= Len(b) THEN <<>>
      ELSE Trim([j \in 1..(Len(b) - a) |->
                   (Limb(b, a + j) \div (2 ^ r))
                     + (Limb(b, a + j + 1) % (2 ^ r)) * (2 ^ (LimbBits - r))])

RECURSIVE NatOfDigits(_)
\* The number a sequence of decimal digits writes.
NatOfDigits(ds) ==
  IF ds = <<>> THEN <<>>
  ELSE Trim(MulAdd(NatOfDigits(SubSeq(ds, 1, Len(ds) - 1)), 10, DigitValue(ds[Len(ds)])))

(***************************************************************************)
(* float(text) * 1000 and int(...) of it, computed as Python computes      *)
(* them: float(text) is the binary64 number nearest to the decimal text    *)
(* (ties to even), the product is rounded to binary64 again, and int()     *)
(* drops the fraction.  A float is [kind, neg, m, e]: the number m * 2^e,  *)
(* or "inf", or "nan".  A decimal below 2^-TinyExponent is taken for 0:    *)
(* its product with 10^9 is below 1, and int() of that is 0 either way.    *)
(***************************************************************************)
\* The bits of the significand of a binary64 number.
SignificandBits == 53

\* The largest binary64 number is below 2^1024.
MaxExponent == 1024

\* 10^9 < 2^30: a float below 2^-64 times 10^3, 10^6 or 10^9 is below 1.
TinyExponent == 64

\* b, and whether a non-zero fraction follows it, rounded to SignificandBits bits,
\* ties to even: the result is r.m * 2^(r.e).  With inexact, b has more than
\* SignificandBits + 1 bits.
RoundToSignificand(b, inexact) ==
  IF BitLen(b) <= SignificandBits THEN [m |-> b, e |-> 0]
  ELSE LET drop == BitLen(b) - SignificandBits
           kept == ShiftRight(b, drop)
           half == BitAt(b, drop - 1) = 1
           more == inexact \/ LowBitsSet(b, drop - 1)
           up == half /\ (more \/ BitAt(kept, 0) = 1)
       IN  [m |-> IF up THEN Trim(MulAdd(kept, 1, 1)) ELSE kept, e |-> drop]

FloatZero(neg) == [kind |-> "finite", neg |-> neg, m |-> <<>>, e |-> 0]
FloatInf(neg) == [kind |-> "inf", neg |-> neg, m |-> <<>>, e |-> 0]
FloatNan == [kind |-> "nan", neg |-> FALSE, m |-> <<>>, e |-> 0]
FloatValueError == [kind |-> "ValueError", neg |-> FALSE, m |-> <<>>, e |-> 0]

\* m * 2^e as a float: "inf" from 2^MaxExponent on.
FloatOf(neg, m, e) ==
  IF BitLen(m) + e > MaxExponent THEN FloatInf(neg)
  ELSE [kind |-> "finite", neg |-> neg, m |-> m, e |-> e]

\* The binary64 number nearest to m * 10^x.
FloatOfDecimal(neg, m, x) ==
  IF m = <<>> THEN FloatZero(neg)
  ELSE IF x >= 0
    THEN IF (BitLen(m) - 1) + 3 * x >= MaxExponent THEN FloatInf(neg)
         ELSE LET r == RoundToSignificand(MulPow10(m, x), FALSE)
              IN  FloatOf(neg, r.m, r.e)
    ELSE IF BitLen(m) + 3 * x <= -TinyExponent THEN FloatZero(neg)
         ELSE LET s == SignificandBits + 2 + 4 * (-x)
                  d == DivPow10(ShiftLeft(m, s), -x)
                  r == RoundToSignificand(d.q, d.inexact)
              IN  FloatOf(neg, r.m, r.e - s)

\* f * 10^k, for the exact factors 1000, 1000000 and 1000000000.
FloatTimesPow10(f, k) ==
  IF f.kind # "finite" \/ f.m = <<>> THEN f
  ELSE LET r == RoundToSignificand(MulPow10(f.m, k), FALSE)
       IN  FloatOf(f.neg, r.m, f.e + r.e)

\* A value of format_number: an int (its sign and its size), or the error raised.
IntResult(neg, mag) == [raised |-> "none", neg |-> neg /\ mag # <<>>, mag |-> mag]
Raised(err) == [raised |-> err, neg |-> FALSE, mag |-> <<>>]

\* int(f): OverflowError for an infinity, ValueError for a NaN.
IntOfFloat(f) ==
  CASE f.kind = "inf" -> Raised("OverflowError")
    [] f.kind = "nan" -> Raised("ValueError")
    [] f.kind = "ValueError" -> Raised("ValueError")
    [] OTHER -> IntResult(f.neg, IF f.e >= 0 THEN ShiftLeft(f.m, f.e)
                                 ELSE ShiftRight(f.m, -f.e))

(***************************************************************************)
(* The texts int() and float() accept.                                     *)
(***************************************************************************)
\* Decimal digits, with single underscores between digits.
ValidDigitPart(s) ==
  /\ s # <<>>
  /\ \A k \in DOMAIN s :
       \/ IsDigit(s[k])
       \/ /\ s[k] = "_"
          /\ k > 1 /\ k < Len(s)
          /\ IsDigit(s[k - 1]) /\ IsDigit(s[k + 1])

HasSign(s) == s # <<>> /\ s[1] \in {"+", "-"}
Unsigned(s) == IF HasSign(s) THEN Tail(s) ELSE s
IsNegative(s) == s # <<>> /\ s[1] = "-"

\* int(text)
ParseInt(t) ==
  IF ValidDigitPart(Unsigned(t))
    THEN IntResult(IsNegative(t), NatOfDigits(Remove(Unsigned(t), "_")))
    ELSE Raised("ValueError")

\* The value of an exponent's digits, up to 99999: from there on the float is an
\* infinity or a zero whatever the digits are.
ExponentValue(ds) ==
  LET n == NatOfDigits(ds)
  IN  IF Len(n) > 2 THEN 99999
      ELSE IF Limb(n, 1) + LimbBase * Limb(n, 2) > 99999 THEN 99999
      ELSE Limb(n, 1) + LimbBase * Limb(n, 2)

\* float(text)
ParseFloat(t) ==
  LET neg == IsNegative(t)
      body == Unsigned(t)
      epos == Find(body, "E")
      mant == IF epos = 0 THEN body ELSE SubSeq(body, 1, epos - 1)
      expo == IF epos = 0 THEN <<>> ELSE SubSeq(body, epos + 1, Len(body))
      dpos == Find(mant, ".")
      ip == IF dpos = 0 THEN mant ELSE SubSeq(mant, 1, dpos - 1)
      fp == IF dpos = 0 THEN <<>> ELSE SubSeq(mant, dpos + 1, Len(mant))
      fdigits == Remove(fp, "_")
      x == IF epos = 0 THEN 0
           ELSE IF IsNegative(expo) THEN -ExponentValue(Remove(Unsigned(expo), "_"))
           ELSE ExponentValue(Remove(Unsigned(expo), "_"))
  IN  IF body \in {<<"I", "N", "F">>, <<"I", "N", "F", "I", "N", "I", "T", "Y">>}
        THEN FloatInf(neg)
      ELSE IF body = <<"N", "A", "N">> THEN FloatNan
      ELSE IF /\ ip = <<>> \/ ValidDigitPart(ip)
              /\ fp = <<>> \/ ValidDigitPart(fp)
              /\ ~(ip = <<>> /\ fp = <<>>)
              /\ epos = 0 \/ ValidDigitPart(Unsigned(expo))
        THEN FloatOfDecimal(neg, NatOfDigits(Remove(ip, "_") \o fdigits), x - Len(fdigits))
      ELSE FloatValueError

(***************************************************************************)
(* format_number (utils.py).                                               *)
(***************************************************************************)
\* int(float(text.replace(suffix, '')) * 10^k)
ScaledInt(t, suffix, k) == IntOfFloat(FloatTimesPow10(ParseFloat(Remove(t, suffix)), k))

\* The try block of format_number.
FormatNumberTry(t) ==
  IF Contains(t, "K") THEN ScaledInt(t, "K", 3)
  ELSE IF Contains(t, "M") THEN ScaledInt(t, "M", 6)
  ELSE IF Contains(t, "B") THEN ScaledInt(t, "B", 9)
  ELSE ParseInt(t)

\* format_number(t): "except (ValueError, TypeError): return 0"; any other
\* error leaves the function.
FormatNumber(t) ==
  IF t = <<>> THEN IntResult(FALSE, <<>>)
  ELSE LET r == FormatNumberTry(Remove(Remove(Upper(t), ","), " "))
       IN  IF r.raised \in {"ValueError", "TypeError"} THEN IntResult(FALSE, <<>>) ELSE r

\* A call of format_number on its own.
FormatNumberCall ==
  /\ f_pc = "call"
  /\ number' = FormatNumber(text)
  /\ f_pc' = IF number'.raised = "none" THEN "returned" ELSE "raised"
  /\ UNCHANGED text
  /\ UNCHANGED <<sinkVars, viewsVars, chainVars, recordVars, fileVars>>
  /\ UNCHANGED crawlVars
  /\ UNCHANGED retryVars

(***************************************************************************)
(* CSVExporter (csv_exporter.py): _extract_video_id, _process_video_data   *)
(* and add_video_data.                                                     *)
(***************************************************************************)
\* Whether p occurs in t at place k.
OccursAt(t, p, k) == k + Len(p) - 1 <= Len(t) /\ SubSeq(t, k, k + Len(p) - 1) = p

\* t.find(p) + 1: the first place where p occurs in t, 0 for none.
FindStr(t, p) ==
  LET places == {k \in 1..Len(t) : OccursAt(t, p, k)}
  IN  IF places = {} THEN 0 ELSE CHOOSE k \in places : \A j \in places : k <= j

RECURSIVE Split(_, _)
\* t.split(sep)
Split(t, sep) ==
  LET k == FindStr(t, sep)
  IN  IF k = 0 THEN <<t>>
      ELSE <<SubSeq(t, 1, k - 1)>> \o Split(SubSeq(t, k + Len(sep), Len(t)), sep)

VideoMarker == <<"/", "v", "i", "d", "e", "o", "/">>
TikTokHost == <<"t", "i", "k", "t", "o", "k", ".", "c", "o", "m">>

\* The first part of url.split("/") that is all digits and longer than 10, "" for none.
FirstLongNumber(parts) ==
  LET long == {k \in DOMAIN parts : IsDigitStr(parts[k]) /\ Len(parts[k]) > 10}
  IN  IF long = {} THEN <<>> ELSE parts[CHOOSE k \in long : \A j \in long : k <= j]

\* extract_video_data: video_data['video_id'] = video_url.split('/')[-1]
VideoIdOfListView(url) == LET parts == Split(url, <<"/">>) IN parts[Len(parts)]

\* An id that is the last part of the path, as the list view takes it.
ExtractVideoId_lastPart(url) == VideoIdOfListView(url)

\* CSVExporter._extract_video_id
ExtractVideoId(url) ==
  IF url = <<>> THEN <<>>
  ELSE IF FindStr(url, VideoMarker) # 0
    THEN Split(Split(url, VideoMarker)[2], <<"?">>)[1]
  ELSE IF FindStr(url, TikTokHost) # 0 THEN FirstLongNumber(Split(url, <<"/">>))
  ELSE <<>>

\* The counts of a record.
CountFields == {"views_count", "likes_count", "comments_count"}

\* _process_video_data, for the id, the URL, the counts, the time and the
\* account of the record: 'scraped_at': datetime.now().isoformat() and
\* 'account_username': config.tiktok_username.
ProcessVideoData(raw) ==
  [video_id |-> ExtractVideoId(raw.video_url),
   video_url |-> raw.video_url,
   views_count |-> FormatNumber(raw.views_count),
   likes_count |-> FormatNumber(raw.likes_count),
   comments_count |-> FormatNumber(raw.comments_count),
   scraped_at |-> now,
   account_username |-> tiktok_username]

\* _process_video_data raises what format_number raises.
ProcessRaises(raw) == \E f \in CountFields : FormatNumber(raw[f]).raised # "none"

\* add_video_data: False for a record without URL and when _process_video_data
\* raises ("except Exception: return False"), else the processed record is appended.
AddVideoData ==
  /\ a_pc = "call"
  /\ LET ok == raw_data.video_url # <<>> /\ ~ProcessRaises(raw_data)
     IN  /\ sink_data' = IF ok THEN Append(sink_data, ProcessVideoData(raw_data))
                         ELSE sink_data
         /\ added' = ok
  /\ a_pc' = "returned"
  /\ UNCHANGED raw_data
  /\ UNCHANGED <<formatVars, viewsVars, chainVars, recordVars, fileVars>>
  /\ UNCHANGED crawlVars
  /\ UNCHANGED retryVars

(***************************************************************************)
(* extract_views_from_grid.  An element is the sequence of the nodes       *)
(* inside it, in document order; a node has a tag, a class, a data-e2e     *)
(* attribute and a text.  The parent of an item's element holds the        *)
(* elements of the items before it, the item's own, and those after it.    *)
(***************************************************************************)
view_selectors ==
  <<"[data-e2e=\"video-views\"]", ".video-count", "strong.video-count",
    "[data-e2e=\"like-count\"]", "strong">>

\* Whether a node matches a selector of view_selectors.
Matches(node, sel) ==
  CASE sel = "[data-e2e=\"video-views\"]" -> node.e2e = "video-views"
    [] sel = ".video-count" -> node.class = "video-count"
    [] sel = "strong.video-count" -> node.tag = "strong" /\ node.class = "video-count"
    [] sel = "[data-e2e=\"like-count\"]" -> node.e2e = "like-count"
    [] sel = "strong" -> node.tag = "strong"

\* query_selector(sel): the place of the first node that matches, 0 for None.
QuerySelector(nodes, sel) ==
  LET found == {k \in DOMAIN nodes : Matches(nodes[k], sel)}
  IN  IF found = {} THEN 0 ELSE CHOOSE k \in found : \A j \in found : k <= j

RECURSIVE Strip(_)
\* text.strip()
Strip(t) ==
  IF t = <<>> THEN t
  ELSE IF Head(t) = " " THEN Strip(Tail(t))
  ELSE IF t[Len(t)] = " " THEN Strip(SubSeq(t, 1, Len(t) - 1))
  ELSE t

\* if view_element: text = inner_text(); if text and any(char.isdigit() ...)
FindsCount(nodes, sel) ==
  /\ QuerySelector(nodes, sel) # 0
  /\ HasDigit(nodes[QuerySelector(nodes, sel)].text)

\* for selector in view_selectors: ... return text.strip(); <<>> when the loop
\* ends without a return.
FirstCount(nodes) ==
  LET finding == {k \in DOMAIN view_selectors : FindsCount(nodes, view_selectors[k])}
      first == CHOOSE k \in finding : \A j \in finding : k <= j
  IN  IF finding = {} THEN <<>>
      ELSE Strip(nodes[QuerySelector(nodes, view_selectors[first])].text)

\* extract_views_from_grid: the element, then its parent, then "0"; "0" also when
\* a query raises.
ExtractViewsFromGrid(own, parent, raises) ==
  IF raises THEN <<"0">>
  ELSE IF FirstCount(own) # <<>> THEN FirstCount(own)
  ELSE IF FirstCount(parent) # <<>> THEN FirstCount(parent)
  ELSE <<"0">>

\* The URL of the item whose views are extracted:
\* https://www.tiktok.com/@u/video/7000000000000000001
GridItemUrl ==
  <<"h", "t", "t", "p", "s", ":", "/", "/", "w", "w", "w", ".">> \o TikTokHost
    \o <<"/", "@", "u">> \o VideoMarker
    \o <<"7", "0", "0", "0", "0", "0", "0", "0", "0", "0", "0", "0", "0", "0", "0", "0",
         "0", "0", "1">>

\* extract_video_data, the views: extract_views_from_grid fills views_count of the
\* record that goes to add_video_data; the likes and the comments are the "0" of
\* a detail view that shows none.
ExtractViews ==
  /\ v_pc = "call"
  /\ \E raises \in BOOLEAN :
       views' = ExtractViewsFromGrid(element, others.before \o element \o others.after,
                                     raises)
  /\ raw_data' = [video_id |-> VideoIdOfListView(GridItemUrl), video_url |-> GridItemUrl,
                  views_count |-> views', likes_count |-> <<"0">>,
                  comments_count |-> <<"0">>, scraped_at |-> now,
                  account_username |-> tiktok_username]
  /\ v_pc' = "returned"
  /\ a_pc' = "call"
  /\ UNCHANGED <<element, others, sink_data, added>>
  /\ UNCHANGED <<formatVars, chainVars, recordVars, fileVars>>
  /\ UNCHANGED crawlVars
  /\ UNCHANGED retryVars

(***************************************************************************)
(* The field extractors of the scraper.  Each one has a list of selectors  *)
(* and queries them in turn.  What the page gives for a selector is a      *)
(* candidate: no element ("absent"), an error of the query or of the read  *)
(* ("raises"), or the element's text or attribute ("element").             *)
(***************************************************************************)
desc_selectors ==
  <<"[data-e2e=\"browse-video-desc\"]", "[data-e2e=\"video-desc\"]",
    ".tiktok-1g04lal-DivItemContainer span", "[data-e2e=\"user-post-item-desc\"]">>

like_selectors ==
  <<"[data-e2e=\"browse-like-count\"]", "[data-e2e=\"like-count\"]",
    "[data-e2e=\"video-views\"]", "strong">>

comment_selectors ==
  <<"[data-e2e=\"browse-comment-count\"]", "[data-e2e=\"comment-count\"]",
    "[data-e2e=\"video-views\"]", "strong">>

link_selectors ==
  <<"a[href*=\"/video/\"]", "[data-e2e=\"video-link\"]", "a[href*=\"tiktok.com\"]">>

img_selectors == <<"img[data-e2e=\"video-cover\"]", "img[alt*=\"video\"]", "img">>

Extractors == {"description", "likes", "comments", "video_url", "thumbnail"}

Selectors(ext) ==
  CASE ext = "description" -> desc_selectors
    [] ext = "likes" -> like_selectors
    [] ext = "comments" -> comment_selectors
    [] ext = "video_url" -> link_selectors
    [] ext = "thumbnail" -> img_selectors

TikTokWord == <<"t", "i", "k", "t", "o", "k">>
AmazonWord == <<"a", "m", "a", "z", "o", "n", "a", "w", "s">>
TikTokOrigin == <<"h", "t", "t", "p", "s", ":", "/", "/", "w", "w", "w", ".">> \o TikTokHost

\* The test an extractor makes on the text or attribute it read.
Accepts(ext, t) ==
  CASE ext = "description" -> Strip(t) # <<>>
    [] ext \in {"likes", "comments"} -> HasDigit(t)
    [] ext = "video_url" -> FindStr(t, VideoMarker) # 0
    [] ext = "thumbnail" -> FindStr(t, TikTokWord) # 0 \/ FindStr(t, AmazonWord) # 0

\* What an extractor returns for a text or attribute it accepts.
Returned(ext, t) ==
  CASE ext \in {"description", "likes", "comments"} -> Strip(t)
    [] ext = "video_url" -> IF Head(t) = "/" THEN TikTokOrigin \o t ELSE t
    [] ext = "thumbnail" -> t

\* What an extractor returns when its loop ends or an error is caught: "", "0",
\* or None (here <<>>).
Default(ext) == IF ext \in {"likes", "comments"} THEN <<"0">> ELSE <<>>

Usable(ext, c) == c.kind = "element" /\ Accepts(ext, c.text)

\* The place of the last usable candidate, 0 for none.
FirstStop_last(ext, cands) ==
  LET stops == {k \in DOMAIN cands : Usable(ext, cands[k])}
  IN  IF stops = {} THEN 0 ELSE CHOOSE k \in stops : \A j \in stops : j <= k

\* The place where the loop over the selectors ends early: the first candidate
\* that raises or that the extractor accepts, 0 for none.
FirstStop(ext, cands) ==
  LET stops == {k \in DOMAIN cands : cands[k].kind = "raises" \/ Usable(ext, cands[k])}
  IN  IF stops = {} THEN 0 ELSE CHOOSE k \in stops : \A j \in stops : k <= j

\* for selector in selectors: element = query_selector(selector); if element: ...
LocatorChain(ext) ==
  /\ c_pc = "call"
  /\ extractor = ext
  /\ LET k == FirstStop(ext, candidates)
     IN  /\ queried' = IF k = 0 THEN Selectors(ext) ELSE SubSeq(Selectors(ext), 1, k)
         /\ value' = IF k = 0 \/ ~Usable(ext, candidates[k]) THEN Default(ext)
                     ELSE Returned(ext, candidates[k].text)
  /\ c_pc' = "returned"
  /\ UNCHANGED <<extractor, candidates>>
  /\ UNCHANGED <<formatVars, sinkVars, viewsVars, recordVars, fileVars>>
  /\ UNCHANGED crawlVars
  /\ UNCHANGED retryVars

ExtractDescriptionFromVideo == LocatorChain("description")
ExtractLikesFromVideo == LocatorChain("likes")
ExtractCommentsFromVideo == LocatorChain("comments")
ExtractVideoUrl == LocatorChain("video_url")
ExtractThumbnail == LocatorChain("thumbnail")

(***************************************************************************)
(* Calls of format_number, of add_video_data and of                        *)
(* extract_views_from_grid on their own.                                   *)
(***************************************************************************)
FormatIdle ==
  /\ text = <<>>
  /\ number = IntResult(FALSE, <<>>)
  /\ f_pc = "idle"

\* A record of the item loop before its counts are filled in.
RawDefaults ==
  [video_id |-> VideoIdOfListView(GridItemUrl), video_url |-> GridItemUrl,
   views_count |-> <<"0">>, likes_count |-> <<"0">>, comments_count |-> <<"0">>,
   scraped_at |-> 0, account_username |-> "hugodecrypte"]

SinkIdle ==
  /\ raw_data = RawDefaults
  /\ sink_data = <<>>
  /\ added = FALSE
  /\ a_pc = "idle"

ViewsIdle ==
  /\ element = <<>>
  /\ others = [before |-> <<>>, after |-> <<>>]
  /\ views = <<>>
  /\ v_pc = "idle"

ChainIdle ==
  /\ extractor = "none"
  /\ candidates = <<>>
  /\ queried = <<>>
  /\ value = <<>>
  /\ c_pc = "idle"

\* The clock at the start of a session whose profile is the configured one.
RecordIdle ==
  /\ now = 0
  /\ username = "hugodecrypte"
  /\ tiktok_username = "hugodecrypte"

(***************************************************************************)
(* save_to_csv.  The file is a sequence of lines: the header that          *)
(* writeheader writes, and one row for each record that writerows writes.  *)
(***************************************************************************)
NoFile == [exists |-> FALSE, lines |-> <<>>]

\* writer.writeheader(): the names of self.columns.
HeaderLine == [kind |-> "header", video_id |-> <<"v", "i", "d", "e", "o", "_", "i", "d">>]

\* writer.writerows(self.data): one line for each record.
Rows(records) ==
  [k \in DOMAIN records |-> [kind |-> "row", video_id |-> records[k].video_id]]

\* file_mode = 'a' if append and os.path.exists(self.filepath) else 'w'
FileMode(append, file) == IF append /\ file.exists THEN "a" ELSE "w"

\* write_header = not (append and os.path.exists(self.filepath))
WriteHeader(append, file) == ~(append /\ file.exists)

\* What open(self.filepath, file_mode) leaves in the file: 'w' empties it.
Opened(mode, file) == IF mode = "a" THEN file.lines ELSE <<>>

\* What the call writes into the open file.
Output(append, file, records) ==
  (IF WriteHeader(append, file) THEN <<HeaderLine>> ELSE <<>>) \o Rows(records)

\* save_to_csv(append).  With no record it returns False at once.  makedirs
\* or open may raise: nothing is written.  A write may raise (the disk is
\* full, the device fails): what was written before it stays in the file.
\* Every exception is caught and the call returns False.
SaveToCsv ==
  /\ Len(saves) < MaxSaves
  /\ \E append \in BOOLEAN, io \in {"ok", "open raises", "write raises"} :
       LET mode == FileMode(append, csvfile)
           out == Output(append, csvfile, sink_data)
           call == [append |-> append, target |-> csvfile, data |-> sink_data]
       IN  IF sink_data = <<>>
           THEN /\ io = "ok"
                /\ save_result' = "False"
                /\ saves' = Append(saves, call)
                /\ UNCHANGED <<csvfile, save_failed>>
           ELSE /\ saves' = Append(saves, call)
                /\ save_result' = IF io = "ok" THEN "True" ELSE "False"
                /\ save_failed' = (save_failed \/ io # "ok")
                /\ CASE io = "ok" ->
                          csvfile' = [exists |-> TRUE,
                                      lines |-> Opened(mode, csvfile) \o out]
                     [] io = "open raises" -> csvfile' = csvfile
                     [] io = "write raises" ->
                          \E n \in 0..(Len(out) - 1) :
                            csvfile' = [exists |-> TRUE,
                                        lines |-> Opened(mode, csvfile) \o SubSeq(out, 1, n)]
  /\ UNCHANGED <<formatVars, sinkVars, viewsVars, chainVars, recordVars>>
  /\ UNCHANGED crawlVars
  /\ UNCHANGED retryVars

FileIdle ==
  /\ csvfile = NoFile
  /\ save_result = "none"
  /\ save_failed = FALSE
  /\ saves = <<>>

CallsIdle == FormatIdle /\ SinkIdle /\ ViewsIdle /\ ChainIdle /\ RecordIdle /\ FileIdle

(***************************************************************************)
(* The crawl session.                                                      *)
(***************************************************************************)
\* scrape_profile never calls retry_handler: in a crawl it stays idle.
RetryIdle ==
  /\ r_pc = "idle"
  /\ r_max_retries = max_retries
  /\ r_base_delay = 1
  /\ attempt = 0
  /\ last_exception = 0
  /\ delay = 0
  /\ r_raised = 0
  /\ calls = 0
  /\ slept = <<>>
  /\ r_result = 0

CrawlStart(n, maxv, v) ==
  /\ pc = "start"
  /\ ret = "none"
  /\ why = "none"
  /\ browser = "none"
  /\ context = "none"
  /\ loc = "none"
  /\ feed_len = n
  /\ feed = <<>>
  /\ max_videos = maxv
  /\ visible = v
  /\ videos_loaded = 0
  /\ no_new_videos_count = 0
  /\ final_count = 0
  /\ recent = <<>>
  /\ total_videos = 0
  /\ i = 0
  /\ video_data = <<>>
  /\ additional_data = "none"
  /\ extracted = "none"
  /\ scraped_videos = <<>>
  /\ scraped_count = 0
  /\ data = <<>>
  /\ csv_saved = "none"
  /\ sinkCalls = <<>>
  /\ detailNavs = <<>>
  /\ profileGotos = 0
  /\ outcome = <<>>
  /\ faulted = FALSE

Init ==
  /\ \E n \in 0..MaxFeed, maxv \in 1..MaxVideosCap : \E v \in 0..n : CrawlStart(n, maxv, v)
  /\ RetryIdle
  /\ CallsIdle

Next ==
  \/ StartBrowser
  \/ NavigateToProfile
  \/ ScrollScan
  \/ ScrollError
  \/ ScrollReturn
  \/ ItemEnumerate
  \/ ItemDetail
  \/ ItemCommit
  \/ ItemSleep
  \/ ItemError
  \/ SaveAndReport
  \/ Interrupt
  \/ CloseBrowser

Spec == Init /\ [][Next]_vars

\* The crawl with a pagination loop that keeps running: an iteration that can
\* be taken is taken, and the function returns when its loop condition is false.
\* Errors and interrupts may happen; nothing forces them.
FairSpec == Spec /\ WF_vars(ScrollScan) /\ WF_vars(ScrollReturn)

(***************************************************************************)
(* A call of execute_with_retry on its own, with a func that may fail.     *)
(***************************************************************************)
RetryInit ==
  /\ CrawlStart(0, 1, 0)
  /\ r_pc = "call"
  /\ r_max_retries \in 0..MaxAttempts
  /\ r_base_delay \in 1..MaxBaseDelay
  /\ attempt = 0
  /\ last_exception = 0
  /\ delay = 0
  /\ r_raised = 0
  /\ calls = 0
  /\ slept = <<>>
  /\ r_result = 0
  /\ CallsIdle

RetryNext ==
  \/ RetryCall
  \/ RetrySleep
  \/ RetryRaise

RetrySpec == RetryInit /\ [][RetryNext]_vars

(***************************************************************************)
(* format_number and add_video_data on a count text: the texts of the      *)
(* spec's and the source's examples, and every text of up to MaxTextLen    *)
(* characters of TextAlphabet.                                             *)
(***************************************************************************)
TextAlphabet == {"0", "1", "4", "9", ".", ",", "-", "K", "M", "B", "k", "E"}

RECURSIVE TextsUpTo(_)
TextsUpTo(n) ==
  IF n = 0 THEN {<<>>}
  ELSE LET shorter == TextsUpTo(n - 1)
       IN  shorter \cup {Append(t, c) : t \in shorter, c \in TextAlphabet}

SampleTexts ==
  { <<"0">>, <<"1", ".", "2", "K">>, <<"5", ".", "5", "M">>, <<"2", "B">>,
    <<"g", "a", "r", "b", "a", "g", "e">>, <<"1", "5", "0">>, <<"2", "5">>,
    <<"2", ".", "1", "K">>, <<"3", "0", "0">>, <<"1", ",", "2", "3", "4">>,
    <<"1", ".", "9", "9", "9", "K">>, <<"4", ".", "1", "M">>, <<"8", ".", "2", "B">>,
    <<"2", ".", "0", "1", "K">>, <<"i", "n", "f", "K">>, <<"n", "a", "n", "K">>,
    <<"1", "e", "9", "9", "9", "K">>, <<"-", "5">>, <<"-", "1", ".", "2", "K">>,
    <<"1", "2", " ", "3", "4", "5">>, <<"1", ".", "5">>, <<"9", ".", "9", "B">> }

Texts == SampleTexts \cup TextsUpTo(MaxTextLen)

FormatInit ==
  /\ CrawlStart(0, 1, 0)
  /\ RetryIdle
  /\ ViewsIdle
  /\ ChainIdle
  /\ RecordIdle
  /\ FileIdle
  /\ text \in Texts
  /\ number = IntResult(FALSE, <<>>)
  /\ f_pc = "call"
  /\ \E f \in CountFields : raw_data = [RawDefaults EXCEPT ![f] = text]
  /\ sink_data = <<>>
  /\ added = FALSE
  /\ a_pc = "call"

FormatNext ==
  \/ FormatNumberCall
  \/ AddVideoData

FormatSpec == FormatInit /\ [][FormatNext]_vars

(***************************************************************************)
(* extract_views_from_grid on an item of a grid, and the record of the     *)
(* item in the sink.                                                       *)
(***************************************************************************)
NodeTexts == {<<"1", ".", "2", "K">>, <<"N", "/", "A">>, <<" ", "7", " ">>}

Nodes ==
  [tag : {"strong", "span"}, class : {"video-count", ""},
   e2e : {"video-views", "like-count", ""}, text : NodeTexts]

\* The elements of up to n nodes.
ElementsUpTo(n) == UNION {[1..k -> Nodes] : k \in 0..n}

ViewsInit ==
  /\ CrawlStart(0, 1, 0)
  /\ RetryIdle
  /\ FormatIdle
  /\ SinkIdle
  /\ ChainIdle
  /\ RecordIdle
  /\ FileIdle
  /\ element \in ElementsUpTo(MaxNodes)
  /\ others \in [before : ElementsUpTo(MaxNodes), after : ElementsUpTo(MaxNodes)]
  /\ views = <<>>
  /\ v_pc = "call"

ViewsNext ==
  \/ ExtractViews
  \/ AddVideoData

ViewsSpec == ViewsInit /\ [][ViewsNext]_vars

(***************************************************************************)
(* add_video_data on the URLs of a video: what stands before the marker,   *)
(* the numeric segment and the query string vary, and so do URLs without a *)
(* marker.  scraped_videos holds whole URLs, so the same video under       *)
(* another query string is handed to the sink again.                       *)
(***************************************************************************)
Chars(str) ==
  CASE str = "host" -> <<"h", "t", "t", "p", "s", ":", "/", "/", "w", "w", "w", ".">>
                         \o TikTokHost \o <<"/", "@", "u">>
    [] str = "path" -> <<"/", "@", "a", ".", "b">>
    [] str = "other" -> <<"h", "t", "t", "p", ":", "/", "/", "x", ".", "i", "o", "/", "9">>
    [] str = "lang" -> <<"?", "l", "a", "n", "g", "=", "e", "n">>
    [] str = "two" -> <<"?", "a", "=", "1", "?", "b", "=", "2", "/", "3">>
    [] str = "marker" -> <<"?", "r", "=">> \o VideoMarker \o <<"9">>
    [] str = "bare" -> <<"?">>
    [] str = "long" -> <<"7", "0", "0", "0", "0", "0", "0", "0", "0", "0", "1">>
    [] str = "photo" -> <<"/", "p", "h", "o", "t", "o", "/">>

IdPrefixes == {Chars("host"), Chars("path"), Chars("other"), <<>>}
IdQueries == {<<>>, Chars("lang"), Chars("two"), Chars("marker"), Chars("bare")}
IdDigits == {"7", "0"}

RECURSIVE DigitsUpTo(_)
DigitsUpTo(n) ==
  IF n = 0 THEN {<<>>}
  ELSE LET shorter == DigitsUpTo(n - 1)
       IN  shorter \cup {Append(t, c) : t \in shorter, c \in IdDigits}

IdSegments == (DigitsUpTo(MaxIdLen) \ {<<>>}) \cup {Chars("long") \o <<"2", "3", "4", "5", "6", "7", "8", "9">>}

\* The URLs of videos: a marker followed by a numeric segment and a query string.
VideoUrls == {p \o VideoMarker \o d \o q : p \in IdPrefixes, d \in IdSegments, q \in IdQueries}

\* URLs without a marker: with and without the host, with and without a long number.
OtherUrls ==
  { <<>>, Chars("host"), Chars("other"), Chars("path"),
    Chars("host") \o Chars("photo") \o Chars("long"),
    Chars("host") \o Chars("photo") \o Chars("long") \o Chars("lang"),
    Chars("host") \o Chars("photo") \o <<"7", "1">>,
    Chars("other") \o Chars("photo") \o Chars("long"),
    <<"v", "i", "d", "e", "o">> }

IdCounts == {<<"0">>, <<"1", ".", "2", "K">>}

\* The URL under another query string.
WithQuery(url, q) == Split(url, <<"?">>)[1] \o q

RawOf(url, c) ==
  [RawDefaults EXCEPT !.video_id = VideoIdOfListView(url), !.video_url = url,
                      !.views_count = c]

IdInit ==
  /\ CrawlStart(0, 1, 0)
  /\ RetryIdle
  /\ FormatIdle
  /\ ViewsIdle
  /\ ChainIdle
  /\ RecordIdle
  /\ FileIdle
  /\ \E url \in VideoUrls \cup OtherUrls, c \in IdCounts : raw_data = RawOf(url, c)
  /\ sink_data = <<>>
  /\ added = FALSE
  /\ a_pc = "call"

\* The item of the same video, found under another query string, is handed over.
HandOverAgain ==
  /\ a_pc = "returned"
  /\ Len(sink_data) < MaxRecords
  /\ \E q \in IdQueries :
       raw_data' = RawOf(WithQuery(raw_data.video_url, q), raw_data.views_count)
  /\ a_pc' = "call"
  /\ UNCHANGED <<sink_data, added>>
  /\ UNCHANGED <<formatVars, viewsVars, chainVars, recordVars, fileVars>>
  /\ UNCHANGED crawlVars
  /\ UNCHANGED retryVars

IdNext ==
  \/ AddVideoData
  \/ HandOverAgain

IdSpec == IdInit /\ [][IdNext]_vars

(***************************************************************************)
(* A call of a field extractor on its own, on every page of candidates.    *)
(***************************************************************************)
CandidateTexts(ext) ==
  CASE ext = "description" -> {<<>>, <<" ">>, <<" ", "h", "i", " ">>}
    [] ext \in {"likes", "comments"} ->
         {<<>>, <<"N", "/", "A">>, <<" ", "7", " ">>, <<"1", ".", "2", "K">>}
    [] ext = "video_url" ->
         {<<>>, <<"/", "@", "u">>, <<"/", "@", "u">> \o VideoMarker \o <<"7">>,
          TikTokOrigin \o <<"/", "@", "u">> \o VideoMarker \o <<"8">>}
    [] ext = "thumbnail" ->
         {<<>>, <<"/", "/", "p", ".">> \o TikTokWord \o <<"/", "a">>,
          <<"/", "/", "x", ".", "i", "o", "/", "a">>}

Candidates(ext) ==
  {[kind |-> "absent", text |-> <<>>], [kind |-> "raises", text |-> <<>>]}
    \cup {[kind |-> "element", text |-> t] : t \in CandidateTexts(ext)}

ChainInit ==
  /\ CrawlStart(0, 1, 0)
  /\ RetryIdle
  /\ FormatIdle
  /\ SinkIdle
  /\ ViewsIdle
  /\ RecordIdle
  /\ FileIdle
  /\ extractor \in Extractors
  /\ candidates \in [DOMAIN Selectors(extractor) -> Candidates(extractor)]
  /\ queried = <<>>
  /\ value = <<>>
  /\ c_pc = "call"

ChainNext ==
  \/ ExtractDescriptionFromVideo
  \/ ExtractLikesFromVideo
  \/ ExtractCommentsFromVideo
  \/ ExtractVideoUrl
  \/ ExtractThumbnail

ChainSpec == ChainInit /\ [][ChainNext]_vars

(***************************************************************************)
(* One item of a session from extract_video_data to add_video_data, with   *)
(* the clock running: the detail view lies between the two calls.  The     *)
(* session is scrape_profile(username), under a configured account.        *)
(***************************************************************************)
Handles == {"hugodecrypte", "nasa"}

\* Time passes.
Tick ==
  /\ now < MaxClock
  /\ now' = now + 1
  /\ UNCHANGED <<username, tiktok_username>>
  /\ UNCHANGED <<formatVars, sinkVars, viewsVars, chainVars, fileVars>>
  /\ UNCHANGED crawlVars
  /\ UNCHANGED retryVars

RecordInit ==
  /\ CrawlStart(0, 1, 0)
  /\ RetryIdle
  /\ FormatIdle
  /\ SinkIdle
  /\ ChainIdle
  /\ FileIdle
  /\ element \in ElementsUpTo(MaxNodes)
  /\ others = [before |-> <<>>, after |-> <<>>]
  /\ views = <<>>
  /\ v_pc = "call"
  /\ now = 0
  /\ username \in Handles
  /\ tiktok_username \in Handles

RecordNext ==
  \/ ExtractViews
  \/ Tick
  \/ AddVideoData

RecordSpec == RecordInit /\ [][RecordNext]_vars

(***************************************************************************)
(* Calls of add_video_data and of save_to_csv in any order, on a target    *)
(* that is not there or that an earlier run of the program has written.    *)
(***************************************************************************)
FileUrls == {<<>>} \cup {p \o VideoMarker \o <<"7">> : p \in IdPrefixes}

PreviousFiles ==
  {[exists |-> TRUE,
    lines |-> <<HeaderLine, [kind |-> "row", video_id |-> <<"7">>]>>]}

FileInit ==
  /\ CrawlStart(0, 1, 0)
  /\ RetryIdle
  /\ FormatIdle
  /\ ViewsIdle
  /\ ChainIdle
  /\ RecordIdle
  /\ \E url \in FileUrls : raw_data = RawOf(url, <<"0">>)
  /\ sink_data = <<>>
  /\ added = FALSE
  /\ a_pc = "call"
  /\ csvfile \in {NoFile} \cup PreviousFiles
  /\ save_result = "none"
  /\ save_failed = FALSE
  /\ saves = <<>>

FileNext ==
  \/ AddVideoData
  \/ HandOverAgain
  \/ SaveToCsv

FileSpec == FileInit /\ [][FileNext]_vars

(***************************************************************************)
(* Properties of the crawl session (Spec).                                 *)
(***************************************************************************)
Min(a, b) == IF a <= b THEN a ELSE b

NoRepeats(s) == \A a, b \in DOMAIN s : a # b => s[a] # s[b]

\* C1: within one crawl session a URL is handed to the sink at most once and is
\* marked committed at most once, the sink holds at most one record per URL, and
\* an item skipped as a duplicate repeats the URL of an earlier item that was
\* committed: exactly one hand-over of that URL has happened.
C1_UrlCommittedOnce ==
  /\ NoRepeats(sinkCalls)
  /\ NoRepeats(scraped_videos)
  /\ NoRepeats([k \in DOMAIN data |-> data[k].video_url])
  /\ \A k \in DOMAIN outcome :
       outcome[k] = "duplicate" =>
         /\ Count(sinkCalls, feed[k].url) = 1
         /\ \E j \in 1..(k - 1) : feed[j].url = feed[k].url /\ outcome[j] = "committed"

\* Two items yielded the same URL: the first was committed, the later one skipped.
C1_Witness ==
  /\ pc = "done"
  /\ \E k \in DOMAIN outcome : outcome[k] = "duplicate"

\* C2: when scrape_profile has returned or propagated, no browser context and no
\* browser handle that was acquired is left without its close having been called,
\* also when closing the context raised.
C2_HandlesReleased ==
  pc = "done" => browser # "open" /\ context # "open"

\* C3: pagination stops as soon as the last 3 scans showed no growth, even below
\* max_videos; below max_videos it stops for no other reason, so stalls that are
\* not consecutive do not end it; a scan that showed growth leaves the stall
\* counter at 0; the stall counter stays in 0..3.
C3_StopsAfterThreeStalls ==
  /\ no_new_videos_count \in 0..max_no_new_videos
  /\ pc = "scroll" =>
       /\ recent = <<FALSE, FALSE, FALSE>>
            => ~ScrollLoopCond(videos_loaded, no_new_videos_count, max_videos)
       /\ (~ScrollLoopCond(videos_loaded, no_new_videos_count, max_videos)
             /\ videos_loaded < max_videos)
            => recent = <<FALSE, FALSE, FALSE>>
       /\ (recent # <<>> /\ recent[Len(recent)]) => no_new_videos_count = 0

\* The feed is exhausted below max_videos: growth, then 3 scans without growth.
C3_Witness ==
  /\ pc = "scroll"
  /\ recent = <<FALSE, FALSE, FALSE>>
  /\ videos_loaded > 0
  /\ videos_loaded < max_videos
  /\ ~ScrollLoopCond(videos_loaded, no_new_videos_count, max_videos)

\* C4: when the scan loop of scroll_and_load_videos is over, the value it returns
\* (videos_loaded) is the visible-item count measured at the last scan.
C4_ReturnsFinalCount ==
  (pc = "scroll" /\ ~ScrollLoopCond(videos_loaded, no_new_videos_count, max_videos))
    => videos_loaded = final_count

\* C7: a navigation error ends the session, or skips the detail view of an item,
\* only after page.goto was attempted max_retries times.
C7_NavigationRetried ==
  /\ why = "nav_error" => profileGotos = max_retries
  /\ (pc = "commit" /\ additional_data = "defaults" /\ loc = "profile")
       => Count(detailNavs, video_data[1].video_url) = max_retries

\* C8: after "User not found" the profile navigation is not repeated, nothing is
\* read, navigated to, handed to the sink or saved, the outcome is failure, and the
\* browser is released when scrape_profile returns.
C8_NotFoundFailsFast ==
  why = "not_found" =>
    /\ profileGotos = 1
    /\ pc \in {"closing", "done"}
    /\ ret = "false"
    /\ total_videos = 0 /\ final_count = 0 /\ recent = <<>>
    /\ feed = <<>> /\ detailNavs = <<>> /\ sinkCalls = <<>> /\ data = <<>>
    /\ csv_saved = "none"
    /\ pc = "done" => browser # "open" /\ context # "open"

\* C8 without the release of the browser: after "User not found" the session only
\* closes the browser.
C8_NotFoundDoesNothingElse ==
  [][why = "not_found" =>
       /\ pc' \in {"closing", "done"}
       /\ UNCHANGED <<ret, why, profileGotos, csv_saved>>
       /\ UNCHANGED scrollVars
       /\ UNCHANGED itemVars]_vars

\* C9: when the item loop is over, every index below max_videos that is still
\* in the grid has been reached: no failure at an item ended the loop early.
C9_LaterItemsProcessed ==
  pc = "save" => i >= Min(max_videos, visible)

\* C10: scrape_profile never returns True with zero records in the sink: with
\* zero records it returns False, whether pagination loaded nothing or every
\* item was skipped.
C10_ZeroRecordsIsFailure ==
  /\ ret = "true" => Len(data) > 0
  /\ (pc \in {"closing", "done"} /\ Len(data) = 0 /\ ret # "raised") => ret = "false"

\* Every item was skipped, and the browser was closed cleanly.
C10_Witness ==
  /\ pc = "done"
  /\ why = "no_data"
  /\ Len(outcome) > 0
  /\ Len(data) = 0
  /\ browser = "closed" /\ context = "closed"

(***************************************************************************)
(* Properties of execute_with_retry (RetrySpec).                           *)
(***************************************************************************)
\* C5: with max_retries = n >= 1, when execute_with_retry raises, func has been
\* invoked exactly n times, every time failing, and the error raised is the error
\* of the n-th invocation; func is never invoked more than n times.
C5_RaisesLastError ==
  /\ calls <= r_max_retries
  /\ (r_pc = "raised" /\ r_max_retries >= 1) =>
       /\ calls = r_max_retries
       /\ r_raised = r_max_retries
       /\ last_exception = r_max_retries

\* Five attempts, all failed, and the fifth error raised.
C5_Witness ==
  /\ r_pc = "raised"
  /\ r_max_retries = 5
  /\ calls = 5
  /\ r_raised = 5

\* C6: the k-th delay slept is base_delay * 2^(k-1); when all n >= 1 attempts
\* failed, n - 1 delays were slept, none after the last attempt; max_retries = 5
\* and base_delay = 1 give the delays 1, 2, 4, 8.
C6_BackoffDelays ==
  /\ \A k \in DOMAIN slept : slept[k] = r_base_delay * (2 ^ (k - 1))
  /\ Len(slept) <= calls
  /\ (r_pc = "raised" /\ r_max_retries >= 1) => Len(slept) = r_max_retries - 1
  /\ (r_pc = "raised" /\ r_max_retries = 5 /\ r_base_delay = 1) => slept = <<1, 2, 4, 8>>

\* Five failed attempts with base_delay 1.
C6_Witness ==
  /\ r_pc = "raised"
  /\ r_max_retries = 5
  /\ r_base_delay = 1
  /\ slept = <<1, 2, 4, 8>>

(***************************************************************************)
(* Properties of the crawl session (Spec), continued.                      *)
(***************************************************************************)
\* C11: when save_to_csv could not write the file, scrape_profile reports failure
\* (returns False).
C11_SaveFailureReported ==
  (pc \in {"closing", "done"} /\ csv_saved = "failed") => ret = "false"

\* C11, the records: saving, written or not, leaves csv_exporter.data as it was.
C11_SaveKeepsData ==
  [][pc = "save" => data' = data]_vars

\* The session ran to its end with no call failing, the profile exists, the grid
\* shows the whole feed, the feed is no longer than max_videos, and every item
\* read had a URL.
CleanRunOfWholeFeed ==
  /\ pc = "done"
  /\ ~faulted
  /\ why # "not_found"
  /\ visible = feed_len
  /\ feed_len <= max_videos
  /\ \A k \in DOMAIN feed : feed[k].url # 0

\* C12: a feed of N items (N <= max_videos) whose URLs are all obtainable and of
\* which D repeat the URL of an earlier item ends, in a session where no call
\* fails, with exactly N - D records in the sink (one per distinct URL of the N
\* items), and get_stats reports total_videos = N - D.
C12_FeedYieldsDistinctRecords ==
  CleanRunOfWholeFeed =>
    /\ Len(feed) = feed_len
    /\ Len(data) = Cardinality({feed[k].url : k \in DOMAIN feed})
    /\ GetStatsTotalVideos(data) = Cardinality({feed[k].url : k \in DOMAIN feed})

\* C12 for the sessions in which pagination saw the grid grow at least once.
C12_AfterGrowth ==
  (CleanRunOfWholeFeed /\ total_videos > 0) =>
    /\ Len(feed) = feed_len
    /\ Len(data) = Cardinality({feed[k].url : k \in DOMAIN feed})
    /\ GetStatsTotalVideos(data) = Cardinality({feed[k].url : k \in DOMAIN feed})

\* Three items, the third repeating the URL of an earlier one: two records.
C12_GrowthCase ==
  /\ CleanRunOfWholeFeed
  /\ total_videos > 0
  /\ feed_len = 3
  /\ Len(data) = 2

(***************************************************************************)
(* Properties of extract_views_from_grid and the record in the sink        *)
(* (ViewsSpec).                                                            *)
(***************************************************************************)
\* The integer n as a value of format_number.
IntOf(n) == IntResult(FALSE, NatOf(n))

\* No selector of view_selectors finds a text with a digit in the item's own element.
NoOwnCount == \A k \in DOMAIN view_selectors : ~FindsCount(element, view_selectors[k])

\* C13: when no view-count selector finds a text with a digit inside the item's own
\* element, the record of the item in the sink has the view count 0, whatever the
\* other items of the grid show.
C13_NoOwnCountGivesZero ==
  (a_pc = "returned" /\ added /\ NoOwnCount) => sink_data[1].views_count = IntOf(0)

\* C13 for an item whose parent shows no count outside the item.
C13_AloneGivesZero ==
  (a_pc = "returned" /\ added /\ NoOwnCount
     /\ \A k \in DOMAIN view_selectors :
          /\ ~FindsCount(others.before, view_selectors[k])
          /\ ~FindsCount(others.after, view_selectors[k]))
    => sink_data[1].views_count = IntOf(0)

\* The item shows no count, the next item shows 1.2K: the record of the item says 1200.
C13_NeighbourCount ==
  /\ a_pc = "returned" /\ added /\ NoOwnCount
  /\ element = <<>>
  /\ others.before = <<>>
  /\ sink_data[1].views_count = IntOf(1200)

\* The outcome of the item the loop is at, once it is decided.
LastOutcome == IF outcome = <<>> THEN "none" ELSE outcome[Len(outcome)]

C15_BackOnProfile ==
  (pc \in {"commit", "sleep", "enumerate"} /\ detailNavs # <<>>) => loc = "profile"

\* A detail-view step that succeeded went back to the profile.
C15_BackAfterSuccess ==
  (pc = "commit" /\ additional_data \in {"values", "malformed"}) => loc = "profile"

\* The handles are queried for the next index while the page shows a detail view.
C15_EnumerateOnDetail ==
  /\ pc = "enumerate"
  /\ loc = "detail"
  /\ i < max_videos
  /\ i < visible

\* C16: a record reaches the sink only after the detail view of its item: the
\* URLs handed to the sink and the URLs marked committed are, in order, the URLs
\* the detail view navigated to, the navigation of the item being committed
\* coming first; no URL was navigated to twice, so each committed URL has exactly
\* one navigation and an item whose URL is already committed adds none.
C16_OneNavigationPerCommit ==
  /\ detailNavs = IF pc = "commit" THEN Append(sinkCalls, video_data[1].video_url)
                                   ELSE sinkCalls
  /\ scraped_videos = sinkCalls
  /\ NoRepeats(detailNavs)
  /\ \A k \in DOMAIN sinkCalls : Count(detailNavs, sinkCalls[k]) = 1
  /\ \A k \in DOMAIN data : Count(detailNavs, data[k].video_url) = 1

\* Two URLs were committed, each after its navigation, and the third item, which
\* repeats the first URL, was skipped without a navigation.
C16_Witness ==
  /\ pc = "sleep"
  /\ outcome = <<"committed", "committed", "duplicate">>
  /\ feed[3].url = feed[1].url
  /\ detailNavs = <<feed[1].url, feed[2].url>>
  /\ sinkCalls = detailNavs
  /\ Len(data) = 2

(***************************************************************************)
(* Properties of format_number and of the sink's records (FormatSpec).     *)
(***************************************************************************)
\* A decimal without sign and exponent: digits with at most one point.
DecimalPrefix(p) ==
  /\ HasDigit(p)
  /\ \A k \in DOMAIN p : IsDigit(p[k]) \/ p[k] = "."
  /\ Cardinality({k \in DOMAIN p : p[k] = "."}) <= 1

\* The integer part of the decimal p times 10^k, in exact arithmetic.
ExactScaled(p, k) ==
  LET dpos == Find(p, ".")
      places == IF dpos = 0 THEN 0 ELSE Len(p) - dpos
  IN  DivPow10(MulPow10(NatOfDigits(Remove(p, ".")), k), places).q

SuffixPower(c) == CASE c = "K" -> 3 [] c = "M" -> 6 [] c = "B" -> 9

\* The text is a decimal followed by one of the suffixes K, M, B.
SuffixedDecimal(t) ==
  /\ t # <<>>
  /\ t[Len(t)] \in {"K", "M", "B"}
  /\ DecimalPrefix(SubSeq(t, 1, Len(t) - 1))

ExactValue(t) == ExactScaled(SubSeq(t, 1, Len(t) - 1), SuffixPower(t[Len(t)]))

\* The examples: "0", "1.2K", "5.5M", "", "garbage", "2B".
C17_Examples ==
  f_pc # "call" =>
    /\ text = <<"0">> => number = IntOf(0)
    /\ text = <<"1", ".", "2", "K">> => number = IntOf(1200)
    /\ text = <<"5", ".", "5", "M">> => number = IntOf(5500000)
    /\ text = <<>> => number = IntOf(0)
    /\ text = <<"g", "a", "r", "b", "a", "g", "e">> => number = IntOf(0)
    /\ text = <<"2", "B">> => number = IntOf(2000000000)

\* C17: format_number gives 0 for "0", 1200 for "1.2K", 5500000 for "5.5M", 0 for
\* "", 0 for "garbage" and 2000000000 for "2B"; for a decimal followed by K, M or
\* B it gives the integer part of the decimal times 10^3, 10^6 or 10^9, and for
\* a text of digits the integer the digits write.
C17_PrefixTimesPowerOfTen ==
  /\ C17_Examples
  /\ f_pc # "call" =>
       /\ SuffixedDecimal(text) => number = IntResult(FALSE, ExactValue(text))
       /\ IsDigitStr(text) => number = IntResult(FALSE, NatOfDigits(text))

\* The number format_number gives for a decimal with a suffix is the integer
\* part of the exact product or the integer below it.
C17_WithinOne ==
  (f_pc # "call" /\ SuffixedDecimal(text)) =>
    /\ number.raised = "none" /\ ~number.neg
    /\ \/ number.mag = ExactValue(text)
       \/ Trim(MulAdd(number.mag, 1, 1)) = ExactValue(text)

\* format_number("4.1M") is 4099999.
C17_OneBelow ==
  /\ f_pc = "returned"
  /\ text = <<"4", ".", "1", "M">>
  /\ ExactValue(text) = NatOf(4100000)
  /\ number = IntOf(4099999)

\* The text as the try block of format_number sees it.
Normalised(t) == Remove(Remove(Upper(t), ","), " ")

\* int() or float() rejects the text, or int() rejects the float.
FailsToParse(t) == t # <<>> /\ FormatNumberTry(Normalised(t)).raised # "none"

\* The counts of the record handed to the sink are texts an extractor can
\* return: texts with a digit.
CountsHaveDigits == \A f \in CountFields : HasDigit(raw_data[f])

\* C18: format_number raises on no text; for the empty text and for every text
\* that fails to parse, "infK" among them, it returns 0; and add_video_data
\* rejects no record because of the text of a count.
C18_NeverRaises ==
  /\ f_pc # "raised"
  /\ (f_pc # "call" /\ (text = <<>> \/ FailsToParse(text))) =>
       f_pc = "returned" /\ number = IntOf(0)
  /\ (a_pc = "returned" /\ CountsHaveDigits) => added /\ Len(sink_data) = 1

\* For the empty text and for a text on which int() or float() raises
\* ValueError, format_number returns 0.
C18_ValueErrorGivesZero ==
  (f_pc # "call" /\ (text = <<>> \/ FormatNumberTry(Normalised(text)).raised = "ValueError")) =>
    f_pc = "returned" /\ number = IntOf(0)

\* format_number("infK") raised OverflowError.
C18_InfRaises ==
  /\ text = <<"i", "n", "f", "K">>
  /\ f_pc = "raised"
  /\ number = Raised("OverflowError")

\* add_video_data returned False for a record whose view count is "1e999K".
C18_SinkRejects ==
  /\ a_pc = "returned"
  /\ raw_data.views_count = <<"1", "e", "9", "9", "9", "K">>
  /\ CountsHaveDigits
  /\ ~added
  /\ sink_data = <<>>

\* C19: in every record the sink holds, views_count, likes_count and
\* comments_count are integers that are not negative, whatever texts with a
\* digit the extractors returned, "-5" and "-1.2K" among them.
C19_CountsNotNegative ==
  (a_pc = "returned" /\ CountsHaveDigits) =>
    \A k \in DOMAIN sink_data : \A f \in CountFields :
      sink_data[k][f].raised = "none" /\ ~sink_data[k][f].neg

\* The counts of a record whose texts have no minus sign are not negative.
C19_UnsignedNotNegative ==
  (a_pc = "returned" /\ \A f \in CountFields : ~Contains(raw_data[f], "-")) =>
    \A k \in DOMAIN sink_data : \A f \in CountFields :
      sink_data[k][f].raised = "none" /\ ~sink_data[k][f].neg

\* The sink holds a record whose likes_count is -1200, from the text "-1.2K".
C19_NegativeCount ==
  /\ a_pc = "returned"
  /\ added
  /\ raw_data.likes_count = <<"-", "1", ".", "2", "K">>
  /\ sink_data[1].likes_count = [raised |-> "none", neg |-> TRUE, mag |-> NatOf(1200)]

(***************************************************************************)
(* Properties of the id of a record (IdSpec).                              *)
(***************************************************************************)
\* A URL from which no id can be read: it has no marker and no part of its path is
\* a number of more than 10 digits.
Unparseable(url) ==
  /\ FindStr(url, VideoMarker) = 0
  /\ FirstLongNumber(Split(url, <<"/">>)) = <<>>

\* C20: for a URL that is a marker /video/ followed by a numeric segment and an
\* optional query string, the video_id of the record in the sink is that numeric
\* segment, whatever the query string is; records of the same URL have the same
\* id; and the id of a URL that cannot be parsed is the empty string.
C20_IdIsNumericSegment ==
  /\ \A k \in DOMAIN sink_data :
       /\ \A p \in IdPrefixes, d \in IdSegments, q \in IdQueries :
            sink_data[k].video_url = p \o VideoMarker \o d \o q =>
              sink_data[k].video_id = d
       /\ Unparseable(sink_data[k].video_url) => sink_data[k].video_id = <<>>
  /\ \A j, k \in DOMAIN sink_data :
       sink_data[j].video_url = sink_data[k].video_url =>
         sink_data[j].video_id = sink_data[k].video_id

\* The sink holds two records of one video, the first from the URL without a query
\* string and the second from the URL with "?lang=en": both have the numeric
\* segment as id, while the list view's id of the second holds the query string.
C20_Witness ==
  /\ a_pc = "returned"
  /\ Len(sink_data) = 2
  /\ sink_data[1].video_url = Chars("host") \o VideoMarker \o <<"7", "0", "7">>
  /\ sink_data[2].video_url = sink_data[1].video_url \o Chars("lang")
  /\ sink_data[1].video_id = <<"7", "0", "7">>
  /\ sink_data[2].video_id = <<"7", "0", "7">>
  /\ raw_data.video_id = <<"7", "0", "7">> \o Chars("lang")

(***************************************************************************)
(* Delays, counts and limits of the item loop (Spec).                      *)
(***************************************************************************)
\* C25: between two consecutive items of the loop a delay is slept: whatever
\* became of an index (committed, skipped as a duplicate, dropped for its missing
\* URL, failed with an error), the loop goes on to the next index from the sleep.
C25_DelayBetweenItems == [][i' # i => pc = "sleep"]_vars

\* An index that did not fail is followed by the sleep: the loop leaves the
\* list-view step and the commit for the sleep or for the detail view only.
C25_DelayUnlessError ==
  [][(i' # i /\ Len(outcome') = Len(outcome)) => pc = "sleep"]_vars

\* The loop is at the next index after an error, and no index was slept after.
C25_NextIndexWithoutDelay ==
  /\ pc = "enumerate"
  /\ i = 1
  /\ outcome = <<"error">>
  /\ i < max_videos

\* C28: at every point of a session scraped_count, the number of URLs in
\* scraped_videos and the number of records the sink holds are equal: a URL is
\* marked committed only if the sink took its record.
C28_CountsAgree ==
  /\ scraped_count = Len(scraped_videos)
  /\ scraped_count = Len(data)

\* scraped_count and scraped_videos agree, the sink never holds more, and holds
\* as many when no call of the session has failed.
C28_CountsAgreeIfConverted ==
  /\ scraped_count = Len(scraped_videos)
  /\ Len(data) <= scraped_count
  /\ ~faulted => Len(data) = scraped_count

\* A URL is marked committed, the sink refused its record.
C28_MarkedButRefused ==
  /\ pc = "sleep"
  /\ LastOutcome = "committed"
  /\ scraped_count = 1
  /\ scraped_videos = <<video_data[1].video_url>>
  /\ data = <<>>

\* C29: the session commits at most max_videos records, also when the grid shows
\* more items than max_videos, and the loop reads no place of the grid beyond
\* the handles it has.
C29_AtMostMaxVideos ==
  /\ Len(data) <= max_videos
  /\ scraped_count <= max_videos
  /\ Len(sinkCalls) <= max_videos
  /\ Len(outcome) <= max_videos
  /\ i <= max_videos
  /\ \A k \in DOMAIN feed : k <= visible /\ k <= max_videos

\* The grid shows 3 items, max_videos is 2, and the loop ended with 2 records.
C29_Witness ==
  /\ pc = "save"
  /\ visible = 3
  /\ max_videos = 2
  /\ i = 2
  /\ Len(data) = 2
  /\ DOMAIN feed = {1, 2}

(***************************************************************************)
(* The ids of the records of one session (IdSpec).                         *)
(***************************************************************************)
\* C30: no two records of a session have the same id, unless it is empty: two
\* URLs of the same /video/<id> that differ in their query string only are one
\* item, of which the sink holds one record.
C30_IdsDistinct ==
  \A j, k \in DOMAIN sink_data :
    (j # k /\ sink_data[j].video_url # sink_data[k].video_url) =>
      \/ sink_data[j].video_id # sink_data[k].video_id
      \/ sink_data[j].video_id = <<>>

\* Records of different videos have different ids.
C30_VideosDistinct ==
  \A j, k \in DOMAIN sink_data :
    Split(sink_data[j].video_url, <<"?">>)[1] # Split(sink_data[k].video_url, <<"?">>)[1] =>
      \/ sink_data[j].video_id # sink_data[k].video_id
      \/ sink_data[j].video_id = <<>>

\* The sink holds two records with the id 70, of the URLs /@a.b/video/70?lang=en
\* and /@a.b/video/70?.
C30_SameIdTwice ==
  /\ Len(sink_data) = 2
  /\ sink_data[1].video_url = Chars("path") \o VideoMarker \o <<"7", "0">> \o Chars("lang")
  /\ sink_data[2].video_url = Chars("path") \o VideoMarker \o <<"7", "0">> \o Chars("bare")
  /\ sink_data[1].video_id = <<"7", "0">>
  /\ sink_data[2].video_id = <<"7", "0">>

(***************************************************************************)
(* Termination of the pagination (FairSpec).                               *)
(***************************************************************************)
\* C27: scroll_and_load_videos terminates whatever counts the page reports from
\* scan to scan, counts that shrink included: a pagination that has started
\* comes to its end.
C27_PaginationTerminates == (pc = "scroll") ~> (pc # "scroll")

\* A pagination in which every query of the handles returns the items the grid
\* has loaded comes to its end.
C27_TerminatesUnlessFaulted == (pc = "scroll") ~> (pc # "scroll" \/ faulted)

\* A scan counted growth although the grid loaded nothing new: the count before
\* the scroll was below the count of the scan before.
C27_GrowthWithoutNewItems ==
  /\ pc = "scroll"
  /\ faulted
  /\ recent = <<TRUE, TRUE, TRUE>>
  /\ visible = 1
  /\ videos_loaded = 1
  /\ no_new_videos_count = 0
  /\ max_videos > 1

(***************************************************************************)
(* A call of execute_with_retry that succeeds (RetrySpec).                 *)
(***************************************************************************)
\* C26: when func first succeeds at its j-th invocation, 1 <= j <= max_retries,
\* execute_with_retry returns the result of that invocation, func has been
\* invoked j times and is not invoked again, j - 1 delays were slept, and no
\* error is raised.
C26_ReturnsFirstSuccess ==
  /\ [](r_pc = "returned" =>
          /\ calls >= 1 /\ calls <= r_max_retries
          /\ calls = attempt + 1
          /\ r_result = calls
          /\ Len(slept) = calls - 1
          /\ r_raised = 0)
  /\ [](r_pc # "returned" => r_result = 0)
  /\ [][r_pc = "returned" => (calls' = calls /\ slept' = slept /\ r_pc' = "returned")]_vars

\* func failed twice and succeeded at its third invocation.
C26_Witness ==
  /\ r_pc = "returned"
  /\ r_max_retries = 5
  /\ r_base_delay = 1
  /\ calls = 3
  /\ r_result = 3
  /\ slept = <<1, 2>>
  /\ r_raised = 0

(***************************************************************************)
(* The order in which an extractor uses its selectors (ChainSpec).         *)
(***************************************************************************)
\* A candidate that is present and not empty, for a count: with a digit.
NonEmptyMatch(ext, c) ==
  /\ c.kind = "element"
  /\ IF ext \in {"likes", "comments"} THEN HasDigit(c.text) ELSE Strip(c.text) # <<>>

\* Every query before place k found nothing to use and did not raise.
NothingBefore(k) ==
  \A j \in 1..(k - 1) : candidates[j].kind # "raises" /\ ~Usable(extractor, candidates[j])

\* C21 as stated: an extractor queries its selectors in list order and returns
\* the value of the first candidate that is present and not empty (for a count:
\* that has a digit), and queries no candidate after it.
C21_FirstNonEmptyCandidate ==
  c_pc = "returned" =>
    /\ queried = SubSeq(Selectors(extractor), 1, Len(queried))
    /\ \A k \in DOMAIN candidates :
         (/\ NonEmptyMatch(extractor, candidates[k])
          /\ \A j \in 1..(k - 1) : candidates[j].kind = "absent"
                                    \/ (candidates[j].kind = "element"
                                          /\ ~NonEmptyMatch(extractor, candidates[j]))) =>
           /\ value = Returned(extractor, candidates[k].text)
           /\ Len(queried) = k

\* C21, amended: an extractor queries its selectors in list order and returns
\* the value of the first candidate it accepts, and queries no candidate after
\* it.  It accepts a description that is not blank, a count with a digit, an
\* href with the marker /video/, and a src with "tiktok" or "amazonaws".
C21_FirstAcceptedCandidate ==
  c_pc = "returned" =>
    /\ queried = SubSeq(Selectors(extractor), 1, Len(queried))
    /\ \A k \in DOMAIN candidates :
         (Usable(extractor, candidates[k]) /\ NothingBefore(k)) =>
           /\ value = Returned(extractor, candidates[k].text)
           /\ Len(queried) = k
    /\ (\A k \in DOMAIN candidates : ~Usable(extractor, candidates[k])) =>
         value = Default(extractor)

\* extract_likes_from_video found nothing for its first selector, a text without
\* a digit for the second and " 7 " for the third: it returned "7" and did not
\* query the fourth, which has "1.2K".
C21_Witness ==
  /\ c_pc = "returned"
  /\ extractor = "likes"
  /\ candidates[1].kind = "absent"
  /\ candidates[2] = [kind |-> "element", text |-> <<"N", "/", "A">>]
  /\ candidates[3] = [kind |-> "element", text |-> <<" ", "7", " ">>]
  /\ candidates[4] = [kind |-> "element", text |-> <<"1", ".", "2", "K">>]
  /\ value = <<"7">>
  /\ queried = SubSeq(like_selectors, 1, 3)

\* extract_video_url found the href "/@u" for its second selector only and
\* returned None.
C21_HrefWithoutMarker ==
  /\ c_pc = "returned"
  /\ extractor = "video_url"
  /\ candidates[1].kind = "absent"
  /\ candidates[2] = [kind |-> "element", text |-> <<"/", "@", "u">>]
  /\ candidates[3].kind = "absent"
  /\ value = <<>>
  /\ queried = link_selectors

(***************************************************************************)
(* The time and the account of a record (RecordSpec).                      *)
(***************************************************************************)
\* C22: the scraped_at of a record in the sink is the time extract_video_data
\* took when it read the item's list-view fields; neither the detail view nor
\* the hand-over to the sink puts a later time in its place.
C22_ScrapedAtIsExtractionTime ==
  (a_pc = "returned" /\ added) =>
    \A k \in DOMAIN sink_data : sink_data[k].scraped_at = raw_data.scraped_at

\* Until the hand-over, the record keeps the time extract_video_data took.
C22_KeptUntilHandOver ==
  [][v_pc = "returned" => raw_data'.scraped_at = raw_data.scraped_at]_vars

\* The item was read at time 0 and handed over at time 2: the record says 2.
C22_LaterTime ==
  /\ a_pc = "returned"
  /\ added
  /\ raw_data.scraped_at = 0
  /\ sink_data[1].scraped_at = 2

\* C23: every record of a session scrape_profile(username) has username as its
\* account_username, and all records of the session have the same.
C23_AccountIsCrawledProfile ==
  /\ \A k \in DOMAIN sink_data : sink_data[k].account_username = username
  /\ \A j, k \in DOMAIN sink_data :
       sink_data[j].account_username = sink_data[k].account_username

\* Every record has the configured account, so all have the same.
C23_AccountIsConfigured ==
  /\ \A k \in DOMAIN sink_data : sink_data[k].account_username = tiktok_username
  /\ a_pc # "idle" => raw_data.account_username = tiktok_username

\* The profile "nasa" was crawled, and the record says "hugodecrypte".
C23_OtherAccount ==
  /\ a_pc = "returned"
  /\ added
  /\ username = "nasa"
  /\ sink_data[1].account_username = "hugodecrypte"

(***************************************************************************)
(* The header of the target file (FileSpec).                               *)
(***************************************************************************)
\* The file has exactly one header, and it is the first line.
OneHeaderFirst(lines) ==
  /\ lines # <<>>
  /\ lines[1] = HeaderLine
  /\ \A k \in DOMAIN lines : lines[k] = HeaderLine => k = 1

LastSave == saves[Len(saves)]

\* C24: once save_to_csv has been called with records to write, the target
\* file has exactly one header row, as its first line, after every call that
\* saved: a save with append=True on an existing target adds the rows without
\* a header, every other save overwrites the file with the header followed by
\* the rows; a save with no record returns False and leaves the file as it was.
C24_OneHeaderRow ==
  /\ save_result = "True" => csvfile.exists /\ OneHeaderFirst(csvfile.lines)
  /\ saves # <<>> =>
       /\ LastSave.data = <<>> => save_result = "False" /\ csvfile = LastSave.target
       /\ (LastSave.data # <<>> /\ save_result = "True") =>
            csvfile.lines =
              IF LastSave.append /\ LastSave.target.exists
              THEN LastSave.target.lines \o Rows(LastSave.data)
              ELSE <<HeaderLine>> \o Rows(LastSave.data)

\* What each call does is as the claim says.
C24_EachSave ==
  saves # <<>> =>
    /\ LastSave.data = <<>> => save_result = "False" /\ csvfile = LastSave.target
    /\ (LastSave.data # <<>> /\ save_result = "True") =>
         /\ csvfile.exists
         /\ csvfile.lines =
              IF LastSave.append /\ LastSave.target.exists
              THEN LastSave.target.lines \o Rows(LastSave.data)
              ELSE <<HeaderLine>> \o Rows(LastSave.data)

\* As long as no call has raised, the file has one header, as its first line.
C24_OneHeaderUnlessRaised ==
  (~save_failed /\ csvfile.exists) => OneHeaderFirst(csvfile.lines)

\* A save has raised after open had emptied the file; the next save, with
\* append=True, found the file there and added rows to it: no header.
C24_RowsWithoutHeader ==
  /\ save_result = "True"
  /\ Len(saves) = 2
  /\ ~saves[1].target.exists
  /\ LastSave.append
  /\ LastSave.target = [exists |-> TRUE, lines |-> <<>>]
  /\ csvfile.lines # <<>>
  /\ \A k \in DOMAIN csvfile.lines : csvfile.lines[k].kind = "row"

(***************************************************************************)
(* What the record keeps of the detail view (Spec).                        *)
(***************************************************************************)
\* The index at hand has been committed and the sink has taken its record.
RecordOfItem ==
  /\ pc = "sleep"
  /\ LastOutcome = "committed"
  /\ data # <<>>
  /\ data[Len(data)].video_url = video_data[1].video_url

\* C31: when the description, the like count and the comment count were read
\* on the detail view of an item, the record committed for the item has exactly
\* those values, also when the navigation back to the profile failed.
C31_RecordKeepsDetailValues ==
  (RecordOfItem /\ extracted = "values") => data[Len(data)].detail = "values"

\* The record has the values that were read when the page went back to the profile.
C31_KeptWhenBack ==
  (RecordOfItem /\ extracted = "values" /\ loc = "profile") =>
    data[Len(data)].detail = "values"

\* The three values were read, go_back raised, and the record has the defaults.
C31_ValuesLost ==
  /\ RecordOfItem
  /\ extracted = "values"
  /\ loc = "detail"
  /\ data[Len(data)].detail = "defaults"

====
